---- MODULE Spec2Model ----
(***************************************************************************)
(* A model of the claude-remote bot: the per-user conversation context,    *)
(* the change approval workflow over the git workspace, and the assistant  *)
(* process executor.                                                       *)
(*                                                                         *)
(* Updates are dispatched one at a time (Application.builder() is built    *)
(* without concurrent_updates, bot.py 1695-1698), so each handler is one   *)
(* action.  Calls to the chat transport are taken to deliver.              *)
(***************************************************************************)
EXTENDS Integers, Sequences, FiniteSets, TLC

(***************************************************************************)
(* Bounds of the model.                                                    *)
(***************************************************************************)
MaxClock == 2
MaxProposals == 25
MaxRejections == 1
MaxLines == 3

(***************************************************************************)
(* Program constants.                                                      *)
(***************************************************************************)
HISTORY_LIMIT == 20
PROMPT_EXCERPT == 100

CHANGE_STATE_PENDING == "pending"
CHANGE_STATE_APPROVED == "approved"
CHANGE_STATE_REJECTED == "rejected"

None == "None"
NoChange == [state |-> "None"]

Users == {"u1", "u2"}

(***************************************************************************)
(* Strings are sequences of characters.                                    *)
(***************************************************************************)
Take(s, n) == SubSeq(s, 1, IF Len(s) < n THEN Len(s) ELSE n)

LastN(s, n) == SubSeq(s, Len(s) - n + 1, Len(s))

\* A sequence of characters as one string.
RECURSIVE Str(_)
Str(s) == IF s = <<>> THEN "" ELSE Head(s) \o Str(Tail(s))

ShortPrompt == <<"a", "d", "d">>
LongPrompt == [i \in 1..(PROMPT_EXCERPT + 1) |-> IF i <= PROMPT_EXCERPT THEN "x" ELSE "y"]
Prompts == {ShortPrompt, LongPrompt}

(***************************************************************************)
(* The git workspace: whether it is a repository, the entries that         *)
(* `git status --porcelain=v1` lists (one XY code per changed file), and   *)
(* the commits made, oldest first.                                         *)
(***************************************************************************)
Modified == <<" ", "M">>
Deleted == <<" ", "D">>
Untracked == <<"?", "?">>
StagedM == <<"M", " ">>
StagedD == <<"D", " ">>
StagedA == <<"A", " ">>

is_git_repo(g) == g.isRepo

\* The lines of the porcelain listing a status call reads: those of the tree,
\* or none at all when git exits with an error and prints nothing on stdout.
StatusLines(g, o) == IF o = "fail" THEN {} ELSE g.tree

get_status(g, o) ==
    IF ~is_git_repo(g) THEN [some |-> FALSE]
    ELSE IF o = "raise" THEN [some |-> FALSE]
    ELSE LET lines == StatusLines(g, o)
             staged == {c \in lines : c[1] # " "}
             modified == {c \in lines : c[2] = "M"}
             untracked == {c \in lines : c[2] # "M" /\ c = Untracked}
         IN [some |-> TRUE,
             is_clean |-> (staged \cup modified \cup untracked) = {},
             staged |-> staged, modified |-> modified, untracked |-> untracked]

\* What `git add -A` does to one listed entry.
Stage(c) ==
    IF c = Modified THEN StagedM
    ELSE IF c = Deleted THEN StagedD
    ELSE IF c = Untracked THEN StagedA
    ELSE c

IndexOf(tree) == {c \in tree : c[1] # " " /\ c # Untracked}

\* add_files(None): (success, message) and the workspace afterwards.  git is
\* run with check=False, so an error exit is not noticed.
add_files(g, o) ==
    IF ~is_git_repo(g) THEN [ok |-> FALSE, git |-> g]
    ELSE IF o = "raise" THEN [ok |-> FALSE, git |-> g]
    ELSE IF o = "fail" THEN [ok |-> TRUE, git |-> g]
    ELSE [ok |-> TRUE, git |-> [g EXCEPT !.tree = {Stage(c) : c \in g.tree}]]

\* What `git commit -m message` does: it records the index as a commit, or
\* exits with an error (o = "fail": a hook, no identity; or an empty index).
RunCommit(g, message, o) ==
    IF o = "ok" /\ IndexOf(g.tree) # {}
    THEN [g EXCEPT !.commits = Append(g.commits, message),
                   !.tree = g.tree \ IndexOf(g.tree)]
    ELSE g

\* `not message.strip()`: the message is its subject followed by the
\* characters of the prompt excerpt.
IsBlankMessage(message) ==
    LET text == <<message.subject>> \o message.prompt
    IN \A i \in DOMAIN text : text[i] \in {" ", "\n"}

\* commit(message): (success, hash or error) and the workspace afterwards.
\* The hash is that of HEAD after the command, whatever the command's exit.
commit(g, message, o) ==
    IF ~is_git_repo(g) THEN [ok |-> FALSE, result |-> "Not a git repository", git |-> g]
    ELSE IF IsBlankMessage(message)
    THEN [ok |-> FALSE, result |-> "Commit message cannot be empty", git |-> g]
    ELSE IF o = "raise" THEN [ok |-> FALSE, result |-> "Failed to commit", git |-> g]
    ELSE LET g2 == RunCommit(g, message, o)
         IN [ok |-> TRUE, result |-> Len(g2.commits), git |-> g2]

GitOutcomes == [status : {"ok", "raise"}, add : {"ok", "fail", "raise"},
                commit : {"ok", "fail", "raise"}]

(***************************************************************************)
(* The state.                                                              *)
(***************************************************************************)
VARIABLES
    user_data,   \* context.user_data of each user
    git,         \* the workspace the module-level GitOperations works on
    now,         \* the wall clock: a run of the assistant takes one tick of it
    last,        \* the handler that ran last: its inputs, git calls and reply
    decisions,   \* per user, every decision that found a pending change
    session_dirs, \* the directories under CLAUDE_SESSIONS_DIR
    returned,    \* the value of the last call of a function that is run on its own
    app,         \* the Application: the updates it holds and the handlers it awaits
    proc,        \* the assistant subprocess of one executor call
    pipe,        \* the lines it wrote to standard output that are not read yet
    written,     \* every line it wrote to standard output, in order
    rd,          \* the executor call: where it stands and what it accumulated
    result       \* what the call handed to its caller

botvars == <<user_data, git, now, last, decisions, session_dirs, returned, app>>
execvars == <<proc, pipe, written, rd, result>>
vars == <<user_data, git, now, last, decisions, session_dirs, returned, app,
          proc, pipe, written, rd, result>>

\* The keys of context.user_data that the handlers write; a key that is
\* absent reads as the default given here.
USER_DATA_SCHEMA ==
    [claude_session_id |-> None, turn_count |-> 0,
     github_repo |-> None, repo_path |-> None,
     pending_change |-> NoChange, approval_history |-> <<>>]

NoProcess == [state |-> "unborn", code |-> None, stdout |-> "open", stderr |-> <<>>,
              reaped |-> FALSE]
NoCall == [mode |-> None, pc |-> "idle", on_progress |-> FALSE, cur |-> <<>>, taken |-> 0,
           output_parts |-> <<>>, tools_used |-> {}, session_id |-> None,
           tool_call_count |-> 0, progress |-> <<>>]
NoResult == [kind |-> "none"]

\* No executor call is modelled in flight.
ExecIdle ==
    /\ proc = NoProcess
    /\ pipe = <<>>
    /\ written = <<>>
    /\ rd = NoCall
    /\ result = NoResult

\* Users who have not written to the bot yet, and the clock at 0.
\* No update is waiting and no handler is running.
NoApp == [update_queue |-> <<>>, running |-> {}, done |-> <<>>]

InitContext ==
    /\ user_data = [u \in Users |-> USER_DATA_SCHEMA]
    /\ git \in [isRepo : BOOLEAN, tree : {{}}, commits : {<<>>}]
    /\ now = 0
    /\ last = [op |-> "init", user |-> None, found |-> FALSE, reply |-> "none",
               calls |-> <<>>, session_id |-> None, cmd |-> <<>>]
    /\ decisions = [u \in Users |-> <<>>]

InitBot ==
    /\ InitContext
    /\ session_dirs = {}
    /\ returned = None
    /\ app = NoApp

Init == InitBot /\ ExecIdle

(***************************************************************************)
(* Session store helpers (bot.py).                                         *)
(***************************************************************************)
\* A variant that makes up an id when none is stored, and stores it.
CreateSessionId(ud) ==
    IF ud.claude_session_id = None
    THEN [session_id |-> "new", user_data |-> [ud EXCEPT !.claude_session_id = "new"]]
    ELSE [session_id |-> ud.claude_session_id, user_data |-> ud]

\* The id handed to the caller, and user_data as the call leaves it.
get_or_create_session_id(ud) == [session_id |-> ud.claude_session_id, user_data |-> ud]

\* A variant that counts only the first turn of a session.
CountFirstTurn(ud) == [ud EXCEPT !.turn_count = 1]

increment_turn_count(ud) == [ud EXCEPT !.turn_count = @ + 1]

reset_session(ud) == [ud EXCEPT !.claude_session_id = None, !.turn_count = 0]

(***************************************************************************)
(* The results execute_streaming hands to a handler, and the edits the     *)
(* assistant's tools leave in the workspace during a run.                  *)
(***************************************************************************)
Responses ==
    { [success |-> TRUE, output |-> "o1", session_id |-> "s1", tools_used |-> {"Write"}],
      [success |-> TRUE, output |-> "o2", session_id |-> "s1", tools_used |-> {}],
      [success |-> FALSE, output |-> "", session_id |-> None, tools_used |-> {}] }

TreeEdits == {{}, {Modified}, {Deleted}}

(***************************************************************************)
(* Proposal: handle_text and handle_voice record the pending change.       *)
(***************************************************************************)
\* A variant of the state check that lets every decision through.
NeverChecked(pc) == TRUE

IsPending(pc) == pc # NoChange /\ pc.state = CHANGE_STATE_PENDING

\* A variant that keeps a change already held instead of replacing it.
KeepEarlierChange(u, old, text, r, sid, t) ==
    IF old # NoChange THEN old
    ELSE [id |-> <<u, t>>, state |-> CHANGE_STATE_PENDING, prompt |-> text,
          timestamp |-> t, output |-> r.output, session_id |-> sid,
          tools_used |-> r.tools_used]

NewPendingChange(u, old, text, r, sid, t) ==
    [id |-> <<u, t>>, state |-> CHANGE_STATE_PENDING, prompt |-> text,
     timestamp |-> t, output |-> r.output, session_id |-> sid,
     tools_used |-> r.tools_used]

\* A variant that records a change whatever the result of the run.
RecordAnyResult(u, ud, text, r, t) ==
    [ud EXCEPT !.pending_change =
        NewPendingChange(u, ud.pending_change, text, r, ud.claude_session_id, t)]

\* From the executor's result on: bot.py 885-900 and 1166-1185.
AfterRun(u, ud, text, r, t) ==
    LET ud1 == IF r.session_id # None
               THEN [ud EXCEPT !.claude_session_id = r.session_id] ELSE ud
    IN IF r.success
       THEN [ud1 EXCEPT !.pending_change =
                NewPendingChange(u, ud.pending_change, text, r, ud1.claude_session_id, t)]
       ELSE ud1

\* A variant of the command that never resumes.
NeverResume(prompt, session_id) ==
    <<"claude", "-p", prompt, "--output-format", "stream-json", "--verbose", "--max-turns">>

\* claude_executor.py 109-127; the number of turns is left out.  The prompt
\* is a sequence of pieces of text, the other arguments are strings.
_build_command(prompt, session_id) ==
    <<"claude", "-p", prompt, "--output-format", "stream-json", "--verbose", "--max-turns">>
    \o (IF session_id # None THEN <<"--resume", session_id>> ELSE <<>>)

\* bot.py 870-879 and 1151-1160: the prompt, with the linked repository put
\* in front of it.
RepoContext(ud, text) ==
    IF ud.github_repo # None /\ ud.repo_path # None
    THEN <<"[Context: ", ud.github_repo, " at ", ud.repo_path, "] ">> \o text
    ELSE text

\* bot.py 838-883 and 1115-1164: the session id is resolved, the turn is
\* counted and the executor is called.
StartRun(ud, text) ==
    LET g == get_or_create_session_id(ud)
        ud1 == increment_turn_count(g.user_data)
    IN [session_id |-> g.session_id, user_data |-> ud1,
        cmd |-> _build_command(RepoContext(ud1, text), g.session_id)]

HandleText(u, text, r, w) ==
    LET ud == user_data[u]
        t == now + 1
        run == StartRun(ud, text)
    IN /\ user_data' = [user_data EXCEPT ![u] = AfterRun(u, run.user_data, text, r, t)]
       /\ git' = [git EXCEPT !.tree = @ \cup w]
       /\ now' = t
       /\ last' = [op |-> "text", user |-> u, found |-> IsPending(ud.pending_change),
                   reply |-> IF r.success THEN "response" ELSE "execution_failed",
                   calls |-> <<>>, session_id |-> run.session_id, cmd |-> run.cmd]
       /\ UNCHANGED decisions

\* A variant of the test that takes only the transcript of length 0 as empty.
NoCharacters(s) == Len(s) = 0

IsEmptyTranscript(s) == Len(s) = 0 \/ \A i \in 1..Len(s) : s[i] = " "

HandleVoice(u, converted, transcript, r, w) ==
    LET ud == user_data[u]
        t == now + 1
        run == StartRun(ud, transcript)
    IN IF ~converted
       THEN /\ last' = [op |-> "voice", user |-> u, found |-> IsPending(ud.pending_change),
                        reply |-> "conversion_failed", calls |-> <<>>, session_id |-> None, cmd |-> <<>>]
            /\ UNCHANGED <<user_data, git, now, decisions>>
       ELSE IF IsEmptyTranscript(transcript)
       THEN /\ last' = [op |-> "voice", user |-> u, found |-> IsPending(ud.pending_change),
                        reply |-> "empty_transcription", calls |-> <<>>, session_id |-> None, cmd |-> <<>>]
            /\ UNCHANGED <<user_data, git, now, decisions>>
       ELSE /\ user_data' = [user_data EXCEPT ![u] =
                                AfterRun(u, run.user_data, transcript, r, t)]
            /\ git' = [git EXCEPT !.tree = @ \cup w]
            /\ now' = t
            /\ last' = [op |-> "voice", user |-> u, found |-> IsPending(ud.pending_change),
                        reply |-> IF r.success THEN "response" ELSE "execution_failed",
                        calls |-> <<>>, session_id |-> run.session_id, cmd |-> run.cmd]
            /\ UNCHANGED decisions

(***************************************************************************)
(* Decision: handle_action_callback, approve and reject.                   *)
(***************************************************************************)
Excerpt(prompt) == Take(prompt, PROMPT_EXCERPT)

HistoryEntry(pc, state, t) ==
    [change_id |-> pc.id, state |-> state, timestamp |-> t, prompt |-> Excerpt(pc.prompt)]

\* A variant of the trim that keeps the oldest entries.
KeepOldest(h) == IF Len(h) > HISTORY_LIMIT THEN Take(h, HISTORY_LIMIT) ELSE h

TrimHistory(h) == IF Len(h) > HISTORY_LIMIT THEN LastN(h, HISTORY_LIMIT) ELSE h

\* A variant of the append that records the entry twice.
AppendTwice(h, e) == TrimHistory(Append(Append(h, e), e))

AppendHistory(h, e) == TrimHistory(Append(h, e))

CommitMessage(pc) == [subject |-> "Apply changes from Claude", prompt |-> Excerpt(pc.prompt)]

\* callback_handlers.py 117-162: the workspace afterwards, the GitOperations
\* methods the handler called, and the reply it sent.
ApproveCommit(g, pc, env) ==
    IF is_git_repo(g)
    THEN LET status == get_status(g, env.status)
         IN IF status.some /\ ~status.is_clean
            THEN LET a == add_files(g, env.add)
                 IN IF a.ok
                    THEN LET c == commit(a.git, CommitMessage(pc), env.commit)
                         IN [git |-> c.git,
                             calls |-> <<"is_git_repo", "get_status", "add_files", "commit">>,
                             reply |-> IF c.ok THEN "approved_committed"
                                       ELSE "approved_commit_failed"]
                    ELSE [git |-> a.git,
                          calls |-> <<"is_git_repo", "get_status", "add_files">>,
                          reply |-> "approved_staging_failed"]
            ELSE [git |-> g, calls |-> <<"is_git_repo", "get_status">>,
                  reply |-> "approved_no_changes"]
    ELSE [git |-> g, calls |-> <<"is_git_repo">>, reply |-> "approved_not_repo"]

\* A variant of reject that discards the uncommitted changes.
RejectAndReset(g, env) ==
    IF is_git_repo(g)
    THEN LET status == get_status(g, env.status)
         IN [git |-> [g EXCEPT !.tree = {}],
             calls |-> <<"is_git_repo", "get_status", "reset">>,
             reply |-> IF status.some /\ ~status.is_clean
                       THEN "rejected_uncommitted" ELSE "rejected_no_modifications"]
    ELSE [git |-> g, calls |-> <<"is_git_repo">>, reply |-> "rejected_no_modifications"]

\* callback_handlers.py 203-230: reject only looks at the workspace.
RejectReport(g, env) ==
    IF is_git_repo(g)
    THEN LET status == get_status(g, env.status)
         IN [git |-> g, calls |-> <<"is_git_repo", "get_status">>,
             reply |-> IF status.some /\ ~status.is_clean
                       THEN "rejected_uncommitted" ELSE "rejected_no_modifications"]
    ELSE [git |-> g, calls |-> <<"is_git_repo">>, reply |-> "rejected_no_modifications"]

ClearPending(pc) == NoChange

\* The branch taken when a pending change is found.  With no change object,
\* pending_change.get raises and handle_callback_query reports the error.
Decided(u, state, effect, t) ==
    LET ud == user_data[u]
        pc == ud.pending_change
    IN IF pc = NoChange
       THEN /\ last' = [op |-> state, user |-> u, found |-> FALSE,
                        reply |-> "error", calls |-> <<>>, session_id |-> None, cmd |-> <<>>]
            /\ UNCHANGED <<user_data, git, decisions>>
       ELSE /\ user_data' = [user_data EXCEPT ![u] =
                [ud EXCEPT !.approval_history = AppendHistory(@, HistoryEntry(pc, state, t)),
                           !.pending_change = ClearPending(pc)]]
            /\ git' = effect.git
            /\ last' = [op |-> state, user |-> u, found |-> TRUE,
                        reply |-> effect.reply, calls |-> effect.calls,
                        session_id |-> None, cmd |-> <<>>]
            /\ decisions' = [decisions EXCEPT ![u] =
                                Append(@, [change_id |-> pc.id, state |-> state])]

NoPendingChanges(u, state) ==
    /\ last' = [op |-> state, user |-> u, found |-> FALSE,
                reply |-> "no_pending_changes", calls |-> <<>>, session_id |-> None, cmd |-> <<>>]
    /\ UNCHANGED <<user_data, git, decisions>>

Approve(u, env) ==
    LET pc == user_data[u].pending_change
    IN /\ UNCHANGED now
       /\ IF IsPending(pc)
          THEN Decided(u, CHANGE_STATE_APPROVED, ApproveCommit(git, pc, env), now)
          ELSE NoPendingChanges(u, CHANGE_STATE_APPROVED)

Reject(u, env) ==
    LET pc == user_data[u].pending_change
    IN /\ UNCHANGED now
       /\ IF IsPending(pc)
          THEN Decided(u, CHANGE_STATE_REJECTED, RejectReport(git, env), now)
          ELSE NoPendingChanges(u, CHANGE_STATE_REJECTED)

(***************************************************************************)
(* Resets: /clear with its confirmation, /newsession and its button.       *)
(***************************************************************************)
ClearSession(ud) ==
    [ud EXCEPT !.claude_session_id = None, !.turn_count = 0, !.pending_change = NoChange]

\* A variant of /clear that does not look for a pending change.
ClearAtOnce(u) ==
    /\ UNCHANGED <<git, now, decisions>>
    /\ last' = [op |-> "clear", user |-> u, found |-> FALSE,
                reply |-> "session_cleared", calls |-> <<>>, session_id |-> None, cmd |-> <<>>]
    /\ user_data' = [user_data EXCEPT ![u] = ClearSession(@)]

HandleClear(u) ==
    LET ud == user_data[u]
    IN /\ UNCHANGED <<git, now, decisions>>
       /\ IF IsPending(ud.pending_change)
          THEN /\ last' = [op |-> "clear", user |-> u, found |-> TRUE,
                           reply |-> "clear_warning", calls |-> <<>>, session_id |-> None, cmd |-> <<>>]
               /\ UNCHANGED user_data
          ELSE /\ last' = [op |-> "clear", user |-> u, found |-> FALSE,
                           reply |-> "session_cleared", calls |-> <<>>, session_id |-> None, cmd |-> <<>>]
               /\ user_data' = [user_data EXCEPT ![u] = ClearSession(ud)]

HandleClearCallback(u, action) ==
    LET ud == user_data[u]
    IN /\ UNCHANGED <<git, now, decisions>>
       /\ last' = [op |-> "clear:" \o action, user |-> u,
                   found |-> IsPending(ud.pending_change),
                   reply |-> IF action = "confirm" THEN "session_cleared"
                             ELSE "clear_cancelled",
                   calls |-> <<>>, session_id |-> None, cmd |-> <<>>]
       /\ user_data' = [user_data EXCEPT ![u] =
                            IF action = "confirm" THEN ClearSession(ud) ELSE ud]

\* A variant of /newsession that resets every user's session.
NewSessionForAll(u) ==
    /\ UNCHANGED <<git, now, decisions>>
    /\ last' = [op |-> "newsession", user |-> u,
                found |-> IsPending(user_data[u].pending_change),
                reply |-> "new_session", calls |-> <<>>, session_id |-> None, cmd |-> <<>>]
    /\ user_data' = [v \in Users |-> reset_session(user_data[v])]

HandleNewSession(u) ==
    /\ UNCHANGED <<git, now, decisions>>
    /\ last' = [op |-> "newsession", user |-> u,
                found |-> IsPending(user_data[u].pending_change),
                reply |-> "new_session", calls |-> <<>>, session_id |-> None, cmd |-> <<>>]
    /\ user_data' = [user_data EXCEPT ![u] = reset_session(@)]

(***************************************************************************)
(* The bot.                                                                *)
(***************************************************************************)
\* The steps of the bot for the acting users U, with the inputs drawn from
\* the given sets.  The clock stops runs, and so decisions, each of which
\* takes a change that a run proposed; rejections are counted.  With
\* `discard` false, no step drops a change that is still pending.
Rejections(u) ==
    Cardinality({i \in 1..Len(decisions[u]) : decisions[u][i].state = CHANGE_STATE_REJECTED})

MayRun(u, maxClock, discard) ==
    now < maxClock /\ (discard \/ ~IsPending(user_data[u].pending_change))

Bot(U, P, R, W, E, maxClock, maxRejections, discard) ==
    \/ \E u \in U, text \in P, r \in R, w \in W :
          /\ MayRun(u, maxClock, discard)
          /\ HandleText(u, text, r, w)
          /\ UNCHANGED <<execvars, session_dirs, returned, app>>
    \/ \E u \in U, cv \in BOOLEAN, tr \in P \cup {<<>>, <<" ">>}, r \in R, w \in W :
          /\ MayRun(u, maxClock, discard)
          /\ HandleVoice(u, cv, tr, r, w)
          /\ UNCHANGED <<execvars, session_dirs, returned, app>>
    \/ \E u \in U, env \in E :
          /\ Approve(u, env)
          /\ UNCHANGED <<execvars, session_dirs, returned, app>>
    \/ \E u \in U, env \in E :
          /\ IsPending(user_data[u].pending_change) => Rejections(u) < maxRejections
          /\ Reject(u, env)
          /\ UNCHANGED <<execvars, session_dirs, returned, app>>
    \/ \E u \in U :
          /\ HandleClear(u)
          /\ UNCHANGED <<execvars, session_dirs, returned, app>>
    \/ \E u \in U, action \in {"confirm", "cancel"} :
          /\ discard \/ ~IsPending(user_data[u].pending_change)
          /\ HandleClearCallback(u, action)
          /\ UNCHANGED <<execvars, session_dirs, returned, app>>
    \/ \E u \in U :
          /\ HandleNewSession(u)
          /\ UNCHANGED <<execvars, session_dirs, returned, app>>

(***************************************************************************)
(* Spec: the approval workflow of one user over the git workspace.         *)
(***************************************************************************)
Next ==
    Bot({"u1"}, Prompts, Responses, TreeEdits, GitOutcomes, MaxClock, MaxClock, TRUE)

Spec == Init /\ [][Next]_vars

(***************************************************************************)
(* SpecHistory: one user's long run of proposals, each of them decided,    *)
(* and resets, in a workspace that is not a repository.                    *)
(***************************************************************************)
InitHistory ==
    /\ Init
    /\ ~git.isRepo

NextHistory ==
    Bot({"u1"}, {ShortPrompt}, {CHOOSE r \in Responses : r.success /\ r.tools_used # {}},
        {{}}, {[status |-> "ok", add |-> "ok", commit |-> "ok"]},
        MaxProposals, MaxRejections, FALSE)

SpecHistory == InitHistory /\ [][NextHistory]_vars

(***************************************************************************)
(* The executor (claude_executor.py): one call of execute or of            *)
(* execute_streaming, and the subprocess it drives.  Texts are sequences   *)
(* of characters.                                                          *)
(***************************************************************************)
SIGKILL == 9

IsSpace(c) == c \in {" ", "\n"}

RECURSIVE LStrip(_)
LStrip(s) == IF s # <<>> /\ IsSpace(Head(s)) THEN LStrip(Tail(s)) ELSE s

RECURSIVE RStrip(_)
RStrip(s) ==
    IF s # <<>> /\ IsSpace(s[Len(s)]) THEN RStrip(SubSeq(s, 1, Len(s) - 1)) ELSE s

\* str.strip()
Strip(s) == RStrip(LStrip(s))

\* ''.join(parts)
RECURSIVE Join(_)
Join(parts) == IF parts = <<>> THEN <<>> ELSE Head(parts) \o Join(Tail(parts))

\* The placeholder is one piece of text, which strip() leaves as it is.
PLACEHOLDER == <<"(Claude completed task with no text output)">>

\* A variant that returns the text as it is.
OutputAsIs(output, tools_used) == output

\* `if not output and tools_used`
OutputOrPlaceholder(output, tools_used) ==
    IF output = <<>> /\ tools_used # {} THEN PLACEHOLDER ELSE output

\* list(tools_used): a set of strings is listed in the order of its hash
\* table, which depends on the hash seed of the process and not on the order
\* of insertion.  A hash order ranks all tool names.
ToolNames == {"Write", "Read"}

HashOrders ==
    {o \in [1..Cardinality(ToolNames) -> ToolNames] :
        \A t \in ToolNames : \E i \in DOMAIN o : o[i] = t}

ListOfSet(order, s) == SelectSeq(order, LAMBDA t : t \in s)

\* Content blocks and stdout lines of the stream-json format.
TextBlock(t) == [type |-> "text", text |-> t]
ToolUse(n) == [type |-> "tool_use", name |-> n]

BlankLine == [json |-> "blank"]
GarbageLine == [json |-> "invalid"]
\* A line that json.loads accepts and that is no object, such as 42.
ScalarLine == [json |-> "scalar"]
SystemInit(sid) == [json |-> "object", type |-> "system", subtype |-> "init", session_id |-> sid]
AssistantEvent(content) == [json |-> "object", type |-> "assistant", content |-> content]
ResultEvent(sid) == [json |-> "object", type |-> "result", subtype |-> "success",
                     session_id |-> sid, errors |-> <<>>]
ResultError(sid, errors) == [json |-> "object", type |-> "result",
                             subtype |-> "error_during_execution",
                             session_id |-> sid, errors |-> errors]

Lines ==
    { BlankLine, GarbageLine, SystemInit("s1"),
      AssistantEvent(<<TextBlock(<<"a">>)>>),
      AssistantEvent(<<TextBlock(<<" ">>)>>),
      AssistantEvent(<<ToolUse("Write"), TextBlock(<<"b">>)>>),
      ResultEvent("s2"), ResultError("s2", <<"E1">>) }

StderrTexts == {<<>>, <<" ">>, <<"e", " ">>}
ExitCodes == {0, 1}

ClaudeResponse(success, output, error, session_id, tools_used) ==
    [kind |-> "response", success |-> success, output |-> output, error |-> error,
     session_id |-> session_id, tools_used |-> tools_used]

Raised(exception) == [kind |-> "raised", exception |-> exception]

\* One content block at a time, as the loops over `content` do, up to the
\* point where the streaming reader awaits on_progress for a tool call.
RECURSIVE Consume(_, _, _)
Consume(blocks, acc, suspend) ==
    IF blocks = <<>> THEN [acc EXCEPT !.cur = <<>>]
    ELSE LET b == Head(blocks)
         IN IF b.type = "text"
            THEN Consume(Tail(blocks), [acc EXCEPT !.output_parts = Append(@, b.text)], suspend)
            ELSE IF b.type = "tool_use"
            THEN LET acc2 == [acc EXCEPT !.tools_used = @ \cup {b.name},
                                         !.tool_call_count = @ + 1]
                 IN IF suspend
                    THEN [acc2 EXCEPT !.cur = Tail(blocks), !.pc = "progress",
                                      !.progress = Append(@, [tool |-> b.name,
                                                              step |-> acc2.tool_call_count])]
                    ELSE Consume(Tail(blocks), acc2, suspend)
            ELSE Consume(Tail(blocks), acc, suspend)

\* The body of the loop over the lines of standard output.
\* A JSON value that is no object has no `get`: the AttributeError is not a
\* JSONDecodeError and leaves the loop.
HandleLine(line, acc, suspend) ==
    IF line.json = "scalar" THEN [acc EXCEPT !.pc = "raised"]
    ELSE IF line.json # "object" THEN acc
    ELSE IF line.type = "system" /\ line.subtype = "init"
    THEN [acc EXCEPT !.session_id = line.session_id]
    ELSE IF line.type = "assistant"
    THEN Consume(line.content, acc, suspend)
    ELSE IF line.type = "result"
    THEN IF acc.session_id = None THEN [acc EXCEPT !.session_id = line.session_id] ELSE acc
    ELSE acc

RECURSIVE HandleLines(_, _)
HandleLines(lines, acc) ==
    IF lines = <<>> \/ acc.pc = "raised" THEN acc
    ELSE HandleLines(Tail(lines), HandleLine(Head(lines), acc, FALSE))

\* A variant of the success test that looks at the exit code only.
ExitCodeOnly(returncode, output, tools_used) == returncode = 0

\* is_success, by truth value.
IsSuccess(returncode, output, tools_used) ==
    returncode = 0 /\ (output # <<>> \/ tools_used # {})

\* _parse_stream_json, lines 134-148: the error of a result event, looked for
\* from the last line backwards; a line that is not JSON ends the search,
\* and one that is no object raises.
AttributeError == "AttributeError"

RECURSIVE ErrorFromStdout(_)
ErrorFromStdout(lines) ==
    IF lines = <<>> THEN None
    ELSE LET line == lines[Len(lines)]
             rest == SubSeq(lines, 1, Len(lines) - 1)
         IN IF line.json = "blank" THEN ErrorFromStdout(rest)
            ELSE IF line.json = "invalid" THEN None
            ELSE IF line.json = "scalar" THEN AttributeError
            ELSE IF /\ line.type = "result"
                    /\ line.subtype = "error_during_execution"
                    /\ line.errors # <<>>
            THEN line.errors[1]
            ELSE ErrorFromStdout(rest)

_parse_stream_json(stdout, stderr, returncode, order) ==
    IF returncode # 0
    THEN LET fromStderr == IF Strip(stderr) # <<>> THEN Str(Strip(stderr)) ELSE None
             fromStdout == IF fromStderr = None THEN ErrorFromStdout(stdout) ELSE fromStderr
             error_msg == IF fromStdout = None THEN "Unknown error" ELSE fromStdout
         IN IF fromStdout = AttributeError THEN Raised(AttributeError)
            ELSE ClaudeResponse(FALSE, <<>>, error_msg, None, <<>>)
    ELSE LET acc == HandleLines(stdout, NoCall)
             output == Strip(Join(acc.output_parts))
         IN IF acc.pc = "raised" THEN Raised(AttributeError)
            ELSE
            ClaudeResponse(IsSuccess(returncode, output, acc.tools_used),
                           OutputOrPlaceholder(output, acc.tools_used),
                           None, acc.session_id, ListOfSet(order, acc.tools_used))

\* execute_streaming, lines 345-370.
StreamingResult(acc, stderr, returncode, order) ==
    LET output == Strip(Join(acc.output_parts))
    IN IF returncode # 0 /\ ~(output # <<>> \/ acc.tools_used # {})
       THEN ClaudeResponse(FALSE, <<>>,
                           IF Strip(stderr) # <<>> THEN Str(Strip(stderr)) ELSE "Unknown error",
                           None, <<>>)
       ELSE ClaudeResponse(IsSuccess(returncode, output, acc.tools_used),
                           OutputOrPlaceholder(output, acc.tools_used),
                           None, acc.session_id, ListOfSet(order, acc.tools_used))

\* A variant of the timeout result that drops the text.
TimeoutWithoutText(output_parts) ==
    ClaudeResponse(FALSE, <<>>, "Command timeout", None, <<>>)

\* execute_streaming, lines 339-343.
StreamingTimeout(output_parts) ==
    ClaudeResponse(FALSE, Strip(Join(output_parts)), "Command timeout", None, <<>>)

\* execute, lines 95-99.
BlockingTimeout == ClaudeResponse(FALSE, <<>>, "Command timeout", None, <<>>)

\* execute, lines 103-107.
ExecutionError == ClaudeResponse(FALSE, <<>>, "Execution error", None, <<>>)

\* execute, lines 80-107: whatever the body raises is caught and reported.
Caught(r) == IF r.kind = "raised" THEN ExecutionError ELSE r

\* A variant of the kill that does not await the exit.
KillWithoutWait(p) ==
    IF p.state = "running"
    THEN [p EXCEPT !.state = "exited", !.code = 0 - SIGKILL, !.stdout = "closed"]
    ELSE p

\* proc.kill() and the wait for the exit that follows it (lines 336-337, and
\* inside subprocess.run): the process is gone and its exit status taken.
Kill(p) ==
    IF p.state = "running"
    THEN [p EXCEPT !.state = "exited", !.code = 0 - SIGKILL, !.stdout = "closed",
                   !.reaped = TRUE]
    ELSE [p EXCEPT !.reaped = TRUE]

(***************************************************************************)
(* The subprocess.                                                         *)
(***************************************************************************)
\* The event loop's child watcher takes in the exit status of the process.
Reap ==
    /\ rd.mode = "execute_streaming"
    /\ proc.state = "exited" /\ ~proc.reaped
    /\ proc' = [proc EXCEPT !.reaped = TRUE]
    /\ UNCHANGED <<pipe, written, rd, result>>

ProcWrite(line) ==
    /\ proc.state = "running" /\ proc.stdout = "open"
    /\ Len(written) < MaxLines
    /\ pipe' = Append(pipe, line)
    /\ written' = Append(written, line)
    /\ UNCHANGED <<proc, rd, result>>

ProcCloseStdout ==
    /\ proc.state = "running" /\ proc.stdout = "open"
    /\ proc' = [proc EXCEPT !.stdout = "closed"]
    /\ UNCHANGED <<pipe, written, rd, result>>

ProcExit(code) ==
    /\ proc.state = "running"
    /\ proc' = [proc EXCEPT !.state = "exited", !.code = code, !.stdout = "closed"]
    /\ UNCHANGED <<pipe, written, rd, result>>

(***************************************************************************)
(* The call.                                                               *)
(***************************************************************************)
\* subprocess.run (line 82) or create_subprocess_exec (line 255) starts the
\* process, or fails to; only execute catches the failure.
Spawn(ok) ==
    /\ rd.pc = "spawn"
    /\ UNCHANGED <<pipe, written>>
    /\ IF ok
       THEN /\ proc' = [proc EXCEPT !.state = "running"]
            /\ rd' = [rd EXCEPT !.pc = IF rd.mode = "execute" THEN "run" ELSE "read"]
            /\ UNCHANGED result
       ELSE /\ rd' = [rd EXCEPT !.pc = "done"]
            /\ result' = IF rd.mode = "execute" THEN ExecutionError
                         ELSE Raised("FileNotFoundError")
            /\ UNCHANGED proc

\* execute: subprocess.run returns once the process has exited, with all it
\* wrote; the output is parsed then.
ExecuteReturn ==
    /\ rd.mode = "execute" /\ rd.pc = "run"
    /\ proc.state = "exited"
    /\ \E order \in HashOrders :
          result' = Caught(_parse_stream_json(written, proc.stderr, proc.code, order))
    /\ rd' = [rd EXCEPT !.pc = "done"]
    /\ pipe' = <<>>
    /\ proc' = [proc EXCEPT !.reaped = TRUE]
    /\ UNCHANGED written

\* execute: subprocess.run gives up on a process that still runs, kills it
\* and raises TimeoutExpired.
ExecuteTimeout ==
    /\ rd.mode = "execute" /\ rd.pc = "run"
    /\ proc.state = "running"
    /\ proc' = Kill(proc)
    /\ result' = BlockingTimeout
    /\ rd' = [rd EXCEPT !.pc = "done"]
    /\ UNCHANGED <<pipe, written>>

\* read_stdout takes the next line and handles it up to its next await.  What
\* the handling raises passes through wait_for and out of the call.
ReadLine ==
    LET acc == HandleLine(Head(pipe), [rd EXCEPT !.taken = @ + 1], rd.on_progress)
    IN /\ rd.mode = "execute_streaming" /\ rd.pc = "read"
       /\ pipe # <<>>
       /\ rd' = IF acc.pc = "raised" THEN [acc EXCEPT !.pc = "done"] ELSE acc
       /\ result' = IF acc.pc = "raised" THEN Raised(AttributeError) ELSE result
       /\ pipe' = Tail(pipe)
       /\ UNCHANGED <<proc, written>>

\* A variant in which the return of on_progress ends the handling of the line.
ProgressEndsLine ==
    /\ rd.mode = "execute_streaming" /\ rd.pc = "progress"
    /\ rd' = [rd EXCEPT !.pc = "read", !.cur = <<>>]
    /\ UNCHANGED <<proc, pipe, written, result>>

\* on_progress returns; the loop over the blocks of the line goes on.
ProgressReturns ==
    /\ rd.mode = "execute_streaming" /\ rd.pc = "progress"
    /\ rd' = Consume(rd.cur, [rd EXCEPT !.pc = "read"], rd.on_progress)
    /\ UNCHANGED <<proc, pipe, written, result>>

\* read_stdout meets the end of standard output; wait_for returns and the
\* call awaits the exit of the process (line 333).
ReadEOF ==
    /\ rd.mode = "execute_streaming" /\ rd.pc = "read"
    /\ pipe = <<>> /\ proc.stdout = "closed"
    /\ rd' = [rd EXCEPT !.pc = "wait"]
    /\ UNCHANGED <<proc, pipe, written, result>>

\* The timer of wait_for fires while read_stdout is suspended (lines
\* 335-343).  kill() on a process whose exit the event loop has already
\* taken in raises ProcessLookupError.
StreamingTimesOut(finalised) ==
    /\ rd.mode = "execute_streaming" /\ rd.pc \in {"read", "progress"}
    /\ finalised => (proc.state = "exited" /\ proc.reaped)
    /\ proc' = IF finalised THEN proc ELSE Kill(proc)
    /\ result' = IF finalised THEN Raised("ProcessLookupError")
                 ELSE StreamingTimeout(rd.output_parts)
    /\ rd' = [rd EXCEPT !.pc = "done"]
    /\ UNCHANGED <<pipe, written>>

\* proc.wait() returns and the result is built (lines 345-370).
StreamingReturn ==
    /\ rd.mode = "execute_streaming" /\ rd.pc = "wait"
    /\ proc.state = "exited" /\ proc.reaped
    /\ \E order \in HashOrders :
          result' = StreamingResult(rd, proc.stderr, proc.code, order)
    /\ rd' = [rd EXCEPT !.pc = "done"]
    /\ UNCHANGED <<proc, pipe, written>>

(***************************************************************************)
(* SpecExec: one executor call, of either kind, against every subprocess   *)
(* that writes at most MaxLines lines.                                     *)
(***************************************************************************)
InitExec ==
    /\ InitBot /\ ~git.isRepo
    /\ proc \in {[NoProcess EXCEPT !.stderr = e] : e \in StderrTexts}
    /\ pipe = <<>>
    /\ written = <<>>
    /\ rd \in {[NoCall EXCEPT !.mode = m, !.pc = "spawn", !.on_progress = p] :
                 m \in {"execute", "execute_streaming"}, p \in BOOLEAN}
    /\ rd.mode = "execute" => ~rd.on_progress
    /\ result = NoResult

\* The steps of a call against a subprocess that writes lines of L.
Exec(L) ==
    \/ \E line \in L : ProcWrite(line) /\ UNCHANGED botvars
    \/ ProcCloseStdout /\ UNCHANGED botvars
    \/ Reap /\ UNCHANGED botvars
    \/ \E code \in ExitCodes : ProcExit(code) /\ UNCHANGED botvars
    \/ \E ok \in BOOLEAN : Spawn(ok) /\ UNCHANGED botvars
    \/ ExecuteReturn /\ UNCHANGED botvars
    \/ ExecuteTimeout /\ UNCHANGED botvars
    \/ ReadLine /\ UNCHANGED botvars
    \/ ProgressReturns /\ UNCHANGED botvars
    \/ ReadEOF /\ UNCHANGED botvars
    \/ \E finalised \in BOOLEAN : StreamingTimesOut(finalised) /\ UNCHANGED botvars
    \/ StreamingReturn /\ UNCHANGED botvars

NextExec == Exec(Lines)

SpecExec == InitExec /\ [][NextExec]_vars

(***************************************************************************)
(* Properties of the approval workflow.  A step of a handler is told by    *)
(* last'.op and last'.user; the unprimed variables are the state it found. *)
(***************************************************************************)
HoldsPending(u) ==
    /\ user_data[u].pending_change # NoChange
    /\ user_data[u].pending_change.state = CHANGE_STATE_PENDING

DecideStep(u, state) == last'.op = state /\ last'.user = u

\* h2 is h with one entry for change `id` decided as `state` put at its end,
\* cut to the most recent HISTORY_LIMIT entries.
GainedEntry(h, h2, id, state) ==
    /\ Len(h2) = (IF Len(h) < HISTORY_LIMIT THEN Len(h) + 1 ELSE HISTORY_LIMIT)
    /\ h2[Len(h2)].change_id = id
    /\ h2[Len(h2)].state = state
    /\ SubSeq(h2, 1, Len(h2) - 1) = LastN(h, Len(h2) - 1)

Uncommitted(g) == g.isRepo /\ g.tree # {}

AllWork == [status |-> "ok", add |-> "ok", commit |-> "ok"]

FirstApprove(u, commitsMade) ==
    (DecideStep(u, CHANGE_STATE_APPROVED) /\ HoldsPending(u))
    => /\ GainedEntry(user_data[u].approval_history, user_data'[u].approval_history,
                      user_data[u].pending_change.id, CHANGE_STATE_APPROVED)
       /\ Len(git'.commits) - Len(git.commits) \in commitsMade

SecondApprove(u) ==
    (/\ last.op = CHANGE_STATE_APPROVED /\ last.user = u /\ last.found
     /\ DecideStep(u, CHANGE_STATE_APPROVED))
    => /\ last'.reply = "no_pending_changes"
       /\ user_data' = user_data
       /\ git' = git

\* C1 (as amended): an approve of a Pending change adds exactly one
\* approval-history entry, for that change, and at most one commit (none when
\* the workspace is not a repository or no change is detected); an approve
\* that directly follows it reports 'no pending changes' and changes neither
\* the user's data nor the repository.
C1_ApproveOnce ==
    [][\A u \in Users : FirstApprove(u, {0, 1}) /\ SecondApprove(u)]_vars

\* C1 as stated: two consecutive approves produce exactly one commit and
\* exactly one history entry, and the second reports 'no pending changes'.
C1_ExactlyOneCommit ==
    [][\A u \in Users : FirstApprove(u, {1}) /\ SecondApprove(u)]_vars

\* The second of two consecutive approves has answered, after the first made
\* a commit and the one history entry.
C1_Witness ==
    /\ last.op = CHANGE_STATE_APPROVED /\ ~last.found
    /\ last.reply = "no_pending_changes"
    /\ Len(decisions["u1"]) = 1 /\ decisions["u1"][1].state = CHANGE_STATE_APPROVED
    /\ Len(user_data["u1"].approval_history) = 1
    /\ Len(git.commits) = 1 /\ now = 1

\* C2: an approve or reject of a user who holds no Pending change answers
\* 'no pending changes' (not an error) and leaves the approval history, the
\* pending change and the repository as they were, whatever was decided
\* before.
C2_DecideWithoutPending ==
    [][\A u \in Users, d \in {CHANGE_STATE_APPROVED, CHANGE_STATE_REJECTED} :
          (DecideStep(u, d) /\ ~HoldsPending(u))
          => /\ last'.reply = "no_pending_changes"
             /\ user_data' = user_data
             /\ git' = git]_vars

\* A reject has answered 'no pending changes' after the change was approved.
C2_Witness ==
    /\ last.op = CHANGE_STATE_REJECTED /\ ~last.found
    /\ last.reply = "no_pending_changes"
    /\ decisions["u1"] # <<>>
    /\ decisions["u1"][Len(decisions["u1"])].state = CHANGE_STATE_APPROVED
    /\ user_data["u1"].pending_change = NoChange

RunStep(u) == last'.op \in {"text", "voice"} /\ last'.user = u

\* C3: a user holds at most one change, which is Pending and is none of the
\* changes already decided; a successful run for a user who holds a Pending
\* change leaves exactly that one slot, with the prompt and output of this
\* second run.
C3_SinglePending ==
    /\ [](\A u \in Users :
            LET pc == user_data[u].pending_change
            IN pc # NoChange =>
                 /\ pc.state = CHANGE_STATE_PENDING
                 /\ \A i \in 1..Len(decisions[u]) : decisions[u][i].change_id # pc.id)
    /\ [][\A u \in Users :
            (RunStep(u) /\ last'.reply = "response" /\ HoldsPending(u))
            => \A text \in Prompts, r \in Responses, w \in TreeEdits :
                  (r.success /\ (HandleText(u, text, r, w) \/ HandleVoice(u, TRUE, text, r, w)))
                  => /\ user_data'[u].pending_change.state = CHANGE_STATE_PENDING
                     /\ user_data'[u].pending_change.prompt = text
                     /\ user_data'[u].pending_change.output = r.output]_vars

\* A second successful run has replaced the change of the first.
C3_Witness ==
    /\ last.op \in {"text", "voice"} /\ last.found /\ last.reply = "response"
    /\ HoldsPending("u1")
    /\ user_data["u1"].pending_change.timestamp = 2
    /\ decisions["u1"] = <<>>

Min(a, b) == IF a < b THEN a ELSE b

\* C4: the approval history has at most 20 entries and is, in decision
\* order, the most recent min(n, 20) of the user's n decisions that found a
\* Pending change; after 25 of them its length is 20 and its last entry is
\* the 25th decision.
C4_HistoryBound ==
    \A u \in Users :
        LET h == user_data[u].approval_history
            d == decisions[u]
            n == Len(d)
        IN /\ Len(h) <= 20
           /\ Len(h) = Min(n, 20)
           /\ \A i \in 1..Len(h) :
                /\ h[i].change_id = d[n - Len(h) + i].change_id
                /\ h[i].state = d[n - Len(h) + i].state
           /\ n = 25 => (Len(h) = 20 /\ h[20].change_id = d[25].change_id)

\* The 25th decision has been taken, one of the 25 a rejection.
C4_Witness ==
    /\ Len(decisions["u1"]) = 25
    /\ Len(user_data["u1"].approval_history) = 20
    /\ Rejections("u1") = 1

\* C5: on approve of a Pending change, with git itself working, stage-all
\* and then one commit, whose message carries at most the first 100
\* characters of the prompt, are attempted if and only if the workspace is a
\* repository with uncommitted modifications; otherwise neither is attempted;
\* the approval is recorded in both cases.
C5_CommitIffUncommitted ==
    [][\A u \in Users :
          (Approve(u, AllWork) /\ HoldsPending(u))
          => /\ Uncommitted(git) <=>
                  last'.calls = <<"is_git_repo", "get_status", "add_files", "commit">>
             /\ ~Uncommitted(git) =>
                  \A i \in 1..Len(last'.calls) : last'.calls[i] \notin {"add_files", "commit"}
             /\ Uncommitted(git) =>
                  /\ Len(git'.commits) = Len(git.commits) + 1
                  /\ git'.commits[Len(git'.commits)].prompt =
                        Take(user_data[u].pending_change.prompt, 100)
             /\ GainedEntry(user_data[u].approval_history, user_data'[u].approval_history,
                            user_data[u].pending_change.id, CHANGE_STATE_APPROVED)]_vars

\* An approve found a repository whose only uncommitted change is the
\* deletion of a tracked file, and attempted no stage and no commit.
C5_Witness ==
    /\ last.op = CHANGE_STATE_APPROVED /\ last.found
    /\ last.reply = "approved_no_changes"
    /\ git.isRepo /\ git.tree = {Deleted}

StageOrCommitFails(env) == env.add # "ok" \/ env.commit # "ok"

\* C6: when staging or the commit fails during the approve of a Pending
\* change, the approval stays: the history has gained the Approved entry,
\* the pending change is None, no commit was made, and the reply is one of
\* the two partial-success reports.
C6_FailureKeepsApproval ==
    [][\A u \in Users, env \in GitOutcomes :
          (/\ Approve(u, env) /\ HoldsPending(u)
           /\ StageOrCommitFails(env)
           /\ \E i \in 1..Len(last'.calls) : last'.calls[i] = "add_files")
          => /\ GainedEntry(user_data[u].approval_history, user_data'[u].approval_history,
                            user_data[u].pending_change.id, CHANGE_STATE_APPROVED)
             /\ user_data'[u].pending_change = NoChange
             /\ git'.commits = git.commits
             /\ last'.reply \in {"approved_staging_failed", "approved_commit_failed"}]_vars

\* An approve has answered 'approved and committed' although the repository
\* still holds the staged changes and no commit.
C6_Witness ==
    /\ last.op = CHANGE_STATE_APPROVED /\ last.found
    /\ last.reply = "approved_committed"
    /\ git.commits = <<>> /\ git.tree = {StagedM}

RECURSIVE BlocksOf(_)
BlocksOf(lines) ==
    IF lines = <<>> THEN <<>>
    ELSE (IF Head(lines).json = "object" /\ Head(lines).type = "assistant"
          THEN Head(lines).content ELSE <<>>) \o BlocksOf(Tail(lines))

RECURSIVE TextsOf(_)
TextsOf(blocks) ==
    IF blocks = <<>> THEN <<>>
    ELSE (IF Head(blocks).type = "text" THEN <<Head(blocks).text>> ELSE <<>>)
         \o TextsOf(Tail(blocks))

TextOf(blocks) == Strip(Join(TextsOf(blocks)))

ToolSeen(blocks) == \E i \in 1..Len(blocks) : blocks[i].type = "tool_use"

\* The blocks the streaming reader has gone through.
ConsumedBlocks ==
    LET b == BlocksOf(Take(written, rd.taken))
    IN SubSeq(b, 1, Len(b) - Len(rd.cur))

Returned == result.kind = "response"

TimedOut == Returned /\ result.error = "Command timeout"

ExitedWith(code) == proc.state = "exited" /\ proc.code = code

SuccessRule ==
    result.success <=>
        (ExitedWith(0) /\ (TextOf(BlocksOf(written)) # <<>> \/ ToolSeen(BlocksOf(written))))

StreamingTimedOut ==
    /\ rd.mode = "execute_streaming" /\ rd.pc = "done"
    /\ TimedOut \/ result = Raised("ProcessLookupError")

TextBearing(line) ==
    /\ line.json = "object" /\ line.type = "assistant"
    /\ TextOf(line.content) # <<>>

\* C10: when the subprocess emits text-bearing assistant events and then
\* stalls until execute times out, the result has success=false and as
\* output the concatenation of the text of the events emitted.
C10_ExecuteTimeoutKeepsText ==
    (/\ rd.mode = "execute" /\ TimedOut
     /\ \E i \in 1..Len(written) : TextBearing(written[i]))
    => /\ ~result.success
       /\ result.output = TextOf(BlocksOf(written))

\* Three text-bearing events were emitted before execute timed out, and the
\* result carries no text.
C10_Witness ==
    /\ rd.mode = "execute" /\ TimedOut
    /\ Len(written) = 3 /\ \A i \in 1..3 : TextBearing(written[i])
    /\ result.output = <<>> /\ ~result.success

(***************************************************************************)
(* SpecMalformed: one executor call against a subprocess whose lines may   *)
(* also be JSON values that are no objects.                                *)
(***************************************************************************)
MalformedLines ==
    { BlankLine, GarbageLine, ScalarLine, SystemInit("s1"),
      AssistantEvent(<<TextBlock(<<"a">>)>>),
      AssistantEvent(<<ToolUse("Write"), TextBlock(<<"b">>)>>) }

NextMalformed == Exec(MalformedLines)

SpecMalformed == InitExec /\ [][NextMalformed]_vars

WellFormed(line) == line.json = "object"

\* What the parser makes of the stream with the other lines taken out.
WithoutMalformed(order) ==
    _parse_stream_json(SelectSeq(written, WellFormed), proc.stderr, 0, order)

\* The call is over, the process exited with code 0, and the timer had no
\* part in the outcome.
FinishedWithZero ==
    /\ rd.pc = "done" /\ proc.state # "unborn"
    /\ ExitedWith(0)
    /\ ~TimedOut /\ result # Raised("ProcessLookupError")

\* C11: for every stream of a process that exits with code 0, execute and
\* execute_streaming skip each line that is not a well-formed event: the
\* call yields a result, whose output is the trimmed concatenation of the
\* text blocks of the well-formed assistant events, and whose success,
\* session id and tools are those of the stream without the malformed lines.
C11_MalformedLinesSkipped ==
    FinishedWithZero
    => /\ Returned
       /\ \E order \in HashOrders : result = WithoutMalformed(order)
       /\ TextOf(BlocksOf(written)) # <<>> => result.output = TextOf(BlocksOf(written))

\* A JSON value that is no object came between two text events of a process
\* that exited with code 0: execute reported an execution error, or
\* execute_streaming raised.
C11_Witness ==
    /\ FinishedWithZero
    /\ written = <<AssistantEvent(<<TextBlock(<<"a">>)>>), ScalarLine,
                   AssistantEvent(<<TextBlock(<<"a">>)>>)>>
    /\ \/ rd.mode = "execute" /\ result = ExecutionError
       \/ rd.mode = "execute_streaming" /\ result = Raised(AttributeError)

(***************************************************************************)
(* SpecExecFair: SpecExec with an event loop that runs: a timer that is    *)
(* due fires, and a step the call can take is taken.  Nothing is assumed   *)
(* of the subprocess.                                                      *)
(***************************************************************************)
TimerStep == \E finalised \in BOOLEAN : StreamingTimesOut(finalised) /\ UNCHANGED botvars

CallStep ==
    \/ \E ok \in BOOLEAN : Spawn(ok) /\ UNCHANGED botvars
    \/ ReadLine /\ UNCHANGED botvars
    \/ ProgressReturns /\ UNCHANGED botvars
    \/ ReadEOF /\ UNCHANGED botvars
    \/ Reap /\ UNCHANGED botvars
    \/ StreamingReturn /\ UNCHANGED botvars

SpecExecFair ==
    /\ InitExec
    /\ [][NextExec]_vars
    /\ WF_vars(TimerStep)
    /\ WF_vars(CallStep)

\* C12: whatever the subprocess does (stalls, writes on, closes standard
\* output without exiting), a call of execute_streaming comes to an end: the
\* one timeout covers the whole call, so with a timer that fires when due
\* the call eventually yields its result.
C12_StreamingCallEnds == rd.mode = "execute_streaming" => <>(rd.pc = "done")

\* The subprocess closed its standard output and runs on; the reader met the
\* end of the output, the timer was dropped, and the call awaits the exit.
C12_Witness ==
    /\ rd.mode = "execute_streaming" /\ rd.pc = "wait"
    /\ proc.state = "running" /\ proc.stdout = "closed"
    /\ ~ENABLED TimerStep /\ ~ENABLED CallStep

\* C13: when execute_streaming times out, the subprocess is killed and its
\* exit awaited before the result is returned: no timeout result reaches the
\* caller while the subprocess still runs or its exit has not been taken in.
C13_TimeoutReapsProcess ==
    (rd.mode = "execute_streaming" /\ TimedOut)
    => /\ rd.pc = "done"
       /\ proc.state = "exited"
       /\ proc.reaped

\* The timer fired on a running subprocess that had written a line: the
\* result is there and the process has gone by SIGKILL, its exit taken in.
C13_Witness ==
    /\ rd.mode = "execute_streaming" /\ TimedOut
    /\ Len(written) = 1
    /\ ExitedWith(0 - SIGKILL) /\ proc.reaped

\* The ways a call fails: the process could not be started, it exited with a
\* code other than 0, or the call timed out.
SpawnFailed == rd.pc = "done" /\ proc.state = "unborn"

Failed == SpawnFailed \/ (rd.pc = "done" /\ proc.state = "exited" /\ proc.code # 0)

\* C14: execute and execute_streaming never raise to the caller: every call
\* that ends yields a result, and a failure to start the process, an exit
\* code other than 0 and a timeout each come back as a result with
\* success=false and an error text.
C14_NeverRaises ==
    rd.pc = "done"
    => /\ Returned
       /\ Failed => (~result.success /\ result.error # None)

\* execute_streaming could not start the process and raised.
C14_Witness ==
    /\ rd.mode = "execute_streaming" /\ SpawnFailed
    /\ result = Raised("FileNotFoundError")

(***************************************************************************)
(* The session commands: /compact, the confirmation of a new session, and  *)
(* /repo.  Arguments are sequences of characters.                          *)
(***************************************************************************)
\* bot.py 578-597.
HandleCompact(u) ==
    LET ud == user_data[u]
    IN /\ UNCHANGED <<git, now, decisions>>
       /\ IF ud.claude_session_id = None
          THEN /\ last' = [op |-> "compact", user |-> u,
                           found |-> IsPending(ud.pending_change),
                           reply |-> "no_active_session",
                           calls |-> <<>>, session_id |-> None, cmd |-> <<>>]
               /\ UNCHANGED user_data
          ELSE /\ last' = [op |-> "compact", user |-> u,
                           found |-> IsPending(ud.pending_change),
                           reply |-> "session_compacted",
                           calls |-> <<>>, session_id |-> None, cmd |-> <<>>]
               /\ user_data' = [user_data EXCEPT ![u] = [ud EXCEPT !.turn_count = 0]]

\* callback_handlers.py 500-530.
HandleConfirmCallback(u, action) ==
    LET ud == user_data[u]
    IN /\ UNCHANGED <<git, now, decisions>>
       /\ last' = [op |-> "confirm:" \o action, user |-> u,
                   found |-> IsPending(ud.pending_change),
                   reply |-> IF action = "newsession" THEN "new_session"
                             ELSE "sessions_cleaned",
                   calls |-> <<>>, session_id |-> None, cmd |-> <<>>]
       /\ user_data' = [user_data EXCEPT ![u] =
                            IF action = "newsession"
                            THEN [ud EXCEPT !.claude_session_id = None, !.turn_count = 0]
                            ELSE ud]

ClearWord == <<"c", "l", "e", "a", "r">>

\* str.strip('/')
RECURSIVE StripSlash(_)
StripSlash(s) ==
    IF s # <<>> /\ Head(s) = "/" THEN StripSlash(Tail(s))
    ELSE IF s # <<>> /\ s[Len(s)] = "/" THEN StripSlash(SubSeq(s, 1, Len(s) - 1))
    ELSE s

HasSlash(s) == \E i \in 1..Len(s) : s[i] = "/"

\* str.split('/')[-1]
RECURSIVE LastComponent(_)
LastComponent(s) ==
    IF HasSlash(s) THEN LastComponent(Tail(s)) ELSE s

WORKSPACE_BASE == "/workspace"

\* Whether the directory of the repository is there already (bot.py 1368),
\* what `git pull` or `git clone` comes to (1367-1391, 1415-1419), and
\* whether the report of the link could be sent (1398-1412).
RepoOutcomes ==
    { [exists |-> e, run |-> o[1], report |-> o[2]] :
        e \in BOOLEAN,
        o \in {<<"ok", "ok">>, <<"ok", "error">>, <<"nonzero", "ok">>,
               <<"timeout", "ok">>, <<"error", "ok">>} }

RepoArgs ==
    { <<>>, <<ClearWord>>, << <<"o">> >>, << <<"/", "o", "/">> >>,
      << <<"o", "/", "r">> >>, << <<"o", "/", "q", "/">> >> }

\* A variant of the link that is made whatever came of the pull or clone.
LinkAnyway(ud, reply, repo_slug, repo_path) ==
    IF reply = "unlinked"
    THEN [ud EXCEPT !.github_repo = None, !.repo_path = None, !.claude_session_id = None]
    ELSE IF reply \in {"linked", "linked_error", "failed", "timeout", "error"}
    THEN [ud EXCEPT !.github_repo = Str(repo_slug), !.repo_path = repo_path,
                    !.claude_session_id = None]
    ELSE ud

\* bot.py 1334-1337 and 1394-1396: what /repo writes into user_data.
LinkRepo(ud, reply, repo_slug, repo_path) ==
    IF reply = "unlinked"
    THEN [ud EXCEPT !.github_repo = None, !.repo_path = None, !.claude_session_id = None]
    ELSE IF reply \in {"linked", "linked_error"}
    THEN [ud EXCEPT !.github_repo = Str(repo_slug), !.repo_path = repo_path,
                    !.claude_session_id = None]
    ELSE ud

\* bot.py 1297-1419.  A clone puts the directory of the repository into the
\* workspace.
HandleRepo(u, args, out) ==
    LET ud == user_data[u]
        repo_slug == StripSlash(args[1])
        repo_path == WORKSPACE_BASE \o "/" \o Str(LastComponent(repo_slug))
        reply == IF args = <<>>
                 THEN (IF ud.github_repo # None THEN "repo_shown" ELSE "no_repo_linked")
                 ELSE IF args[1] = ClearWord THEN "unlinked"
                 ELSE IF ~HasSlash(repo_slug) THEN "invalid_format"
                 ELSE IF out.run = "timeout" THEN "timeout"
                 ELSE IF out.run = "error" THEN "error"
                 ELSE IF out.run = "nonzero" THEN "failed"
                 ELSE IF out.report = "ok" THEN "linked" ELSE "linked_error"
    IN /\ UNCHANGED <<now, decisions>>
       /\ last' = [op |-> "repo", user |-> u, found |-> IsPending(ud.pending_change),
                   reply |-> reply, calls |-> <<>>, session_id |-> None, cmd |-> <<>>]
       /\ user_data' = [user_data EXCEPT ![u] = LinkRepo(ud, reply, repo_slug, repo_path)]
       /\ git' = IF reply \in {"linked", "linked_error"} /\ ~out.exists
                 THEN [git EXCEPT !.tree = @ \cup {Untracked}] ELSE git

Session(U, A, O) ==
    \/ \E u \in U :
          /\ HandleCompact(u)
          /\ UNCHANGED <<execvars, session_dirs, returned, app>>
    \/ \E u \in U, action \in {"newsession", "cleansessions"} :
          /\ HandleConfirmCallback(u, action)
          /\ UNCHANGED <<execvars, session_dirs, returned, app>>
    \/ \E u \in U, args \in A, out \in O :
          /\ HandleRepo(u, args, out)
          /\ UNCHANGED <<execvars, session_dirs, returned, app>>

(***************************************************************************)
(* SpecSession: one user's runs and session commands, in a workspace that  *)
(* is not a repository.                                                    *)
(***************************************************************************)
MaxTurns == 2

\* Results of execute_streaming: a failed run carries a session id when the
\* process exited with an error after it had written text.
SessionResponses ==
    { [success |-> TRUE, output |-> "o1", session_id |-> "s1", tools_used |-> {"Write"}],
      [success |-> TRUE, output |-> "o2", session_id |-> "s2", tools_used |-> {}],
      [success |-> FALSE, output |-> "", session_id |-> None, tools_used |-> {}],
      [success |-> FALSE, output |-> "o3", session_id |-> "s3", tools_used |-> {}] }

InitSession ==
    /\ Init
    /\ ~git.isRepo

NextSession ==
    \/ Bot({"u1"}, {ShortPrompt}, SessionResponses, {{}},
           {[status |-> "ok", add |-> "ok", commit |-> "ok"]}, MaxTurns, MaxTurns, TRUE)
    \/ Session({"u1"}, RepoArgs, RepoOutcomes)

SpecSession == InitSession /\ [][NextSession]_vars

(***************************************************************************)
(* SpecUsers: the handlers serving two users in turn.                      *)
(***************************************************************************)
MaxShared == 2

NextUsers ==
    \/ Bot(Users, {ShortPrompt}, {CHOOSE r \in Responses : r.success /\ r.tools_used # {}},
           {{}}, {[status |-> "ok", add |-> "ok", commit |-> "ok"]},
           MaxShared, 0, TRUE)
    \/ Session(Users, {<<ClearWord>>, << <<"o", "/", "r">> >>},
               {out \in RepoOutcomes : out.exists /\ out.report = "ok" /\ out.run = "ok"})

SpecUsers == InitSession /\ [][NextUsers]_vars

(***************************************************************************)
(* Properties of the session store.                                        *)
(***************************************************************************)
\* The step is a request of user u that reached the executor.
ExecutorStep(u) == RunStep(u) /\ last'.reply \in {"response", "execution_failed"}

StoredId(u) == user_data[u].claude_session_id

C16_IdStoredOnSuccessOnly ==
    [][\A u \in Users :
         (ExecutorStep(u) /\ last'.reply = "execution_failed")
         => user_data'[u].claude_session_id = StoredId(u)]_vars

\* The first run of a user failed, and the id it carried is stored.
C16_Witness ==
    /\ last.op = "text" /\ last.reply = "execution_failed"
    /\ last.session_id = None
    /\ user_data["u1"].turn_count = 1
    /\ StoredId("u1") = "s3"

\* execute_streaming does hand out such results: success=false with the
\* session id of the init event, after text and an exit code other than 0.
FailedWithSessionId ==
    /\ rd.mode = "execute_streaming" /\ Returned
    /\ ~result.success /\ result.session_id = "s1"
    /\ ExitedWith(1)

SessionResets == {"newsession", "clear", "clear:confirm", "confirm:newsession"}

RepoStep(u) == last'.op = "repo" /\ last'.user = u

Bound == {"linked", "linked_error", "unlinked"}

BindFailed == {"invalid_format", "failed", "timeout", "error"}

\* C17: the stored session id is set to None only by a reset (new session,
\* clear, the confirm callbacks) and by binding or unbinding a repository; a
\* bind or unbind that is made leaves the id None; a bind that fails (bad
\* slug, failure or timeout of the clone or pull) leaves the id and the
\* linked repository as they were.
C17_IdClearedByResetOrBind ==
    [][\A u \in Users :
         /\ (StoredId(u) # None /\ user_data'[u].claude_session_id = None)
            => /\ last'.user = u
               /\ \/ last'.op \in SessionResets
                  \/ last'.op = "repo" /\ last'.reply \in Bound
         /\ (RepoStep(u) /\ last'.reply \in Bound)
            => user_data'[u].claude_session_id = None
         /\ (RepoStep(u) /\ last'.reply \in BindFailed)
            => /\ user_data'[u].claude_session_id = StoredId(u)
               /\ user_data'[u].github_repo = user_data[u].github_repo
               /\ user_data'[u].repo_path = user_data[u].repo_path]_vars

\* A user with a repository linked and a session running asked for another
\* repository, whose clone failed: session and link are as before.
C17_Witness ==
    /\ last.op = "repo" /\ last.reply = "failed"
    /\ StoredId("u1") = "s1"
    /\ user_data["u1"].github_repo = "o/r"
    /\ user_data["u1"].repo_path = "/workspace/r"

TurnCount(u) == user_data[u].turn_count

TurnCountedOnce(u) ==
    /\ ExecutorStep(u) => user_data'[u].turn_count = TurnCount(u) + 1
    /\ user_data'[u].turn_count > TurnCount(u) => ExecutorStep(u)

\* C18 (as amended): the turn count goes up by exactly 1 with every request
\* that reaches the executor (a text message, or a voice message with a
\* transcript that is not empty) and with nothing else; it goes down only by
\* a reset (new session, clear, the confirm callbacks) or by /compact with a
\* session id stored, each of which sets it to 0; /compact keeps the session.
C18_TurnCount ==
    [][\A u \in Users :
         /\ TurnCountedOnce(u)
         /\ user_data'[u].turn_count < TurnCount(u)
            => /\ last'.user = u
               /\ last'.op \in SessionResets \cup {"compact"}
               /\ user_data'[u].turn_count = 0
               /\ last'.op = "compact"
                  => (StoredId(u) # None /\ user_data'[u].claude_session_id = StoredId(u))]_vars

\* C18 as stated: nothing but a reset lowers the turn count.
C18_OnlyResetLowers ==
    [][\A u \in Users :
         /\ TurnCountedOnce(u)
         /\ user_data'[u].turn_count < TurnCount(u)
            => (last'.user = u /\ last'.op \in SessionResets)]_vars

\* After two requests that reached the executor, /compact put the count to 0
\* and left the session id.
C18_Witness ==
    /\ last.op = "compact" /\ last.reply = "session_compacted"
    /\ now = 2
    /\ TurnCount("u1") = 0
    /\ StoredId("u1") = "s1"

BaseCommand(cmd) == Take(cmd, 7)

ResumeArgs(cmd) == SubSeq(cmd, 8, Len(cmd))

\* C19: a turn begun with session id S stored calls the assistant with
\* `--resume S`, and one begun with none stored calls it without --resume;
\* the id a run returns is stored, so that with no reset or bind in between
\* the user's next turn resumes it.
C19_ResumeStored ==
    [][\A u \in Users :
         ExecutorStep(u)
         => /\ ResumeArgs(last'.cmd) =
                 (IF StoredId(u) # None THEN <<"--resume", StoredId(u)>> ELSE <<>>)
            /\ \A i \in 1..Len(BaseCommand(last'.cmd)) \ {3} : last'.cmd[i] # "--resume"
            /\ \A text \in {ShortPrompt}, r \in SessionResponses :
                 (HandleText(u, text, r, {}) /\ r.session_id # None)
                 => user_data'[u].claude_session_id = r.session_id]_vars

\* The run before returned s1, and the turn after it resumed s1.
C19_Witness ==
    /\ last.op = "text"
    /\ Len(last.cmd) = 9 /\ last.cmd[8] = "--resume" /\ last.cmd[9] = "s1"
    /\ user_data["u1"].turn_count = 2

\* C20: no step taken for one user changes any field of another user's
\* context (session id, turn count, linked repository, pending change,
\* approval history), whatever the steps of the two are and however they
\* are interleaved.
C20_UsersIsolated ==
    [][\A a \in Users : \A b \in Users \ {a} :
         last'.user = a => user_data'[b] = user_data[b]]_vars

\* One user holds a session, a linked repository and a pending change, and
\* the other user has just started a new session.
C20_Witness ==
    /\ last.op = "newsession" /\ last.user = "u1"
    /\ StoredId("u2") = "s1"
    /\ TurnCount("u2") = 1
    /\ user_data["u2"].github_repo = "o/r"
    /\ HoldsPending("u2")
    /\ TurnCount("u1") = 0 /\ now = 2

(***************************************************************************)
(* The allow-list, the session directories and the inline buttons.         *)
(***************************************************************************)
\* config.ALLOWED_USER_IDS of a deployment that admits one user.
ALLOWED_USER_IDS == {"u1"}

check_authorization(user_id) ==
    IF ALLOWED_USER_IDS = {} THEN TRUE ELSE user_id \in ALLOWED_USER_IDS

\* The reply of every command handler to a user the check turns away.
Unauthorized(u, op) ==
    /\ UNCHANGED <<user_data, git, now, decisions, session_dirs>>
    /\ last' = [op |-> op, user |-> u, found |-> FALSE, reply |-> "unauthorized",
                calls |-> <<>>, session_id |-> None, cmd |-> <<>>]

\* An entry of the sessions directory: its name, whether it is a directory,
\* the day of its last modification, whether its files can be read by stat
\* and whether it can be removed.  Time is counted in days.
SESSION_MAX_AGE_DAYS == 30

Today == SESSION_MAX_AGE_DAYS + 1

SessionDir(session_id, modified) ==
    [session_id |-> session_id, is_dir |-> TRUE, modified |-> modified,
     stat_ok |-> TRUE, rm_ok |-> TRUE]

SessionDirs ==
    { SessionDir(<<"user_", "u1", "a">>, 0), SessionDir(<<"user_", "u1", "b">>, Today),
      SessionDir(<<"user_", "u2", "a">>, 0), SessionDir(<<"s1">>, 0) }

\* The entries list_sessions reports: the directories whose name starts with
\* the filter and for which get_session_info returns the information.
Listed(dirs, user_filter, root_exists) ==
    IF ~root_exists THEN {}
    ELSE {d \in dirs :
            /\ d.is_dir
            /\ user_filter # <<>> =>
                  /\ Len(d.session_id) >= Len(user_filter)
                  /\ Take(d.session_id, Len(user_filter)) = user_filter
            /\ d.stat_ok}

\* A variant of the listing that skips the sort.
ListInAnyOrder(dirs, user_filter, root_exists) ==
    LET s == Listed(dirs, user_filter, root_exists)
    IN {l \in [1..Cardinality(s) -> s] : \A d \in s : \E i \in DOMAIN l : l[i] = d}

\* The lists list_sessions may return: sorted by `modified`, the latest
\* first, entries of the same day in the order iterdir gave them.
list_sessions(dirs, user_filter, root_exists) ==
    LET s == Listed(dirs, user_filter, root_exists)
    IN {l \in [1..Cardinality(s) -> s] :
          /\ \A d \in s : \E i \in DOMAIN l : l[i] = d
          /\ \A i, j \in DOMAIN l : i < j => l[i].modified >= l[j].modified}

\* A variant of the deletion that reports success whatever happened.
DeleteReportsTrue(dirs, session_id) ==
    [dirs |-> {d \in dirs : d.session_id # session_id \/ ~(d.is_dir /\ d.rm_ok)}, ok |-> TRUE]

\* shutil.rmtree removes a directory; what it raises is caught.
delete_session(dirs, session_id) ==
    LET found == {d \in dirs : d.session_id = session_id}
        removable == {d \in found : d.is_dir /\ d.rm_ok}
    IN [dirs |-> dirs \ removable, ok |-> removable # {}]

RECURSIVE DeleteAll(_, _, _)
DeleteAll(dirs, sessions, deleted_count) ==
    IF sessions = <<>> THEN [dirs |-> dirs, deleted_count |-> deleted_count]
    ELSE LET r == delete_session(dirs, Head(sessions).session_id)
         IN DeleteAll(r.dirs, Tail(sessions), IF r.ok THEN deleted_count + 1 ELSE deleted_count)

cleanup_old_sessions(dirs, user_filter, max_age_days, time) ==
    LET cutoff_time == time - max_age_days
        sessions == CHOOSE l \in list_sessions(dirs, user_filter, TRUE) : TRUE
    IN DeleteAll(dirs, SelectSeq(sessions, LAMBDA s : s.modified < cutoff_time), 0)

HandleCleanSessions(u) ==
    LET kept == cleanup_old_sessions(session_dirs, <<"user_", u>>,
                                     SESSION_MAX_AGE_DAYS, Today).dirs
    IN /\ UNCHANGED <<user_data, git, now, decisions>>
       /\ session_dirs' = kept
       /\ last' = [op |-> "cleansessions", user |-> u,
                   found |-> IsPending(user_data[u].pending_change),
                   reply |-> IF kept # session_dirs THEN "cleaned_up"
                             ELSE "no_old_sessions",
                   calls |-> <<"cleanup_old_sessions">>, session_id |-> None, cmd |-> <<>>]

\* callback_handlers.py 283-434: the button runs git in the workspace.
HandleGitCallback(u, action) ==
    /\ UNCHANGED <<user_data, git, now, decisions>>
    /\ last' = [op |-> "git:" \o action, user |-> u,
                found |-> IsPending(user_data[u].pending_change),
                reply |-> IF is_git_repo(git) THEN "git_" \o action ELSE "no_repository",
                calls |-> <<"git " \o action>>, session_id |-> None, cmd |-> <<>>]

\* callback_handlers.py 436-485 and 533-547: these presses only edit the message.
HandleSessionCallback(u, action) ==
    /\ UNCHANGED <<user_data, git, now, decisions>>
    /\ last' = [op |-> "session:" \o action, user |-> u,
                found |-> IsPending(user_data[u].pending_change),
                reply |-> IF action = "clean" THEN "confirm_cleansessions"
                          ELSE "confirm_newsession",
                calls |-> <<>>, session_id |-> None, cmd |-> <<>>]

HandleCancelCallback(u, action) ==
    /\ UNCHANGED <<user_data, git, now, decisions>>
    /\ last' = [op |-> "cancel:" \o action, user |-> u,
                found |-> IsPending(user_data[u].pending_change),
                reply |-> "action_cancelled",
                calls |-> <<>>, session_id |-> None, cmd |-> <<>>]

handle_callback_query(u, callback_data, env) ==
    LET category == callback_data[1]
        action == callback_data[2]
    IN CASE category = "action" /\ action = "approve" -> Approve(u, env)
         [] category = "action" /\ action = "reject" -> Reject(u, env)
         [] category = "git" -> HandleGitCallback(u, action)
         [] category = "session" -> HandleSessionCallback(u, action)
         [] category = "clear" -> HandleClearCallback(u, action)
         [] category = "confirm" -> HandleConfirmCallback(u, action)
         [] category = "cancel" -> HandleCancelCallback(u, action)

\* Besides the runs and decisions of Bot: the commands of the users who are
\* not on the allow-list, /cleansessions, and the buttons, which any member
\* of the chat can press.
Access(U, E) ==
    \/ \E u \in U, op \in {"start", "clear", "newsession", "cleansessions", "text",
                            "voice", "repo", "gitdiff", "commit"} :
          /\ ~check_authorization(u)
          /\ Unauthorized(u, op)
          /\ UNCHANGED <<execvars, returned, app>>
    \/ \E u \in U :
          /\ check_authorization(u)
          /\ HandleCleanSessions(u)
          /\ UNCHANGED <<execvars, returned, app>>
    \/ \E u \in U, env \in E,
          callback_data \in
              { <<"action", "approve">>, <<"action", "reject">>,
                <<"git", "diff">>, <<"git", "status">>,
                <<"session", "new">>, <<"session", "clean">>,
                <<"clear", "confirm">>, <<"clear", "cancel">>,
                <<"confirm", "newsession">>, <<"confirm", "cleansessions">>,
                <<"cancel", "newsession">>, <<"cancel", "cleansessions">> } :
          /\ handle_callback_query(u, callback_data, env)
          /\ UNCHANGED <<execvars, session_dirs, returned, app>>

(***************************************************************************)
(* SpecAccess: an allowed user and one who is not on the allow-list, over  *)
(* a sessions directory that holds directories already.                    *)
(***************************************************************************)
InitAccess ==
    /\ InitContext
    /\ session_dirs \in SUBSET SessionDirs
    /\ returned = None
    /\ app = NoApp
    /\ ExecIdle

NextAccess ==
    \/ Bot({u \in Users : check_authorization(u)}, {ShortPrompt}, {r \in Responses : r.tools_used # {}},
           {{}}, {AllWork}, MaxShared, MaxShared, TRUE)
    \/ Access(Users, {AllWork})

SpecAccess == InitAccess /\ [][NextAccess]_vars

(***************************************************************************)
(* C21: authorization precedes every side effect.                          *)
(***************************************************************************)
\* C21: with a non-empty allow-list, an operation of a user who is not on it
\* (a command, a text or voice message, or the press of an inline button)
\* changes no context field, starts no assistant run, and touches neither
\* the repository nor the session directories.
C21_UnauthorizedNoEffect ==
    [][(ALLOWED_USER_IDS # {} /\ last'.user \in Users \ ALLOWED_USER_IDS)
          => /\ user_data' = user_data
             /\ git' = git
             /\ session_dirs' = session_dirs
             /\ last'.calls = <<>>
             /\ last'.cmd = <<>>]_vars

\* A user who is not on the allow-list pressed the diff button and git ran.
C21_Witness ==
    /\ last.user \in Users \ ALLOWED_USER_IDS
    /\ last.op = "git:diff"
    /\ last.calls = <<"git diff">>

(***************************************************************************)
(* C22: /clear over a pending change asks first.                           *)
(***************************************************************************)
\* C22: /clear issued while a change is pending changes nothing (session id,
\* turn count and pending change stay); the cancel button changes nothing;
\* the confirm button sets the session id to None, the turn count to 0 and
\* the pending change to None and keeps the approval history.
C22_ClearAsksFirst ==
    [][LET u == last'.user
       IN /\ (last'.op = "clear" /\ HoldsPending(u))
                => (user_data' = user_data /\ git' = git /\ last'.reply = "clear_warning")
          /\ last'.op = "clear:cancel" => (user_data' = user_data /\ git' = git)
          /\ last'.op = "clear:confirm"
                => /\ user_data'[u] = [user_data[u] EXCEPT !.claude_session_id = None,
                                                           !.turn_count = 0,
                                                           !.pending_change = NoChange]
                   /\ user_data'[u].approval_history = user_data[u].approval_history
                   /\ git' = git]_vars

\* The confirm button was pressed over a pending change, after a decision
\* had been recorded: the change is gone and the history is still there.
C22_Witness ==
    /\ last.op = "clear:confirm"
    /\ last.found
    /\ user_data[last.user].approval_history # <<>>
    /\ user_data[last.user].pending_change = NoChange
    /\ user_data[last.user].claude_session_id = None

(***************************************************************************)
(* C23: the deletion of old sessions is confirmed first.                   *)
(***************************************************************************)
\* C23: the request to delete old sessions (the /cleansessions command or
\* the session:clean button) removes no session directory, the cancel
\* button removes none, and a directory is removed only by the step of the
\* confirm button.
C23_CleanNeedsConfirm ==
    [][/\ last'.op \in {"cleansessions", "session:clean", "cancel:cleansessions"}
             => session_dirs' = session_dirs
       /\ session_dirs' # session_dirs => last'.op = "confirm:cleansessions"]_vars

\* /cleansessions removed a directory although nothing had been confirmed.
C23_Witness ==
    /\ last.op = "cleansessions"
    /\ last.reply = "cleaned_up"
    /\ \E d \in SessionDirs : d.modified < Today - SESSION_MAX_AGE_DAYS /\ d \notin session_dirs

(***************************************************************************)
(* C24: an empty transcript is not run.                                    *)
(***************************************************************************)
\* C24: a voice message whose transcript is empty or only whitespace starts
\* no process, leaves turn count, session id and pending change as they
\* were, and is answered with the empty-transcription failure, which is
\* neither the conversion failure nor the failure of a run.
C24_EmptyTranscriptNotRun ==
    [][last'.op = "voice"
          => \A tr \in {<<>>, <<" ">>}, r \in SessionResponses :
                HandleVoice(last'.user, TRUE, tr, r, {})
                   => /\ last'.reply = "empty_transcription"
                      /\ last'.cmd = <<>>
                      /\ last'.session_id = None
                      /\ user_data' = user_data
                      /\ git' = git]_vars

\* The empty transcript arrived in the second turn of a session with a
\* pending change, all of which is still there.
C24_Witness ==
    /\ last.op = "voice"
    /\ last.reply = "empty_transcription"
    /\ user_data[last.user].turn_count = 1
    /\ user_data[last.user].claude_session_id # None
    /\ HoldsPending(last.user)

(***************************************************************************)
(* SpecStream: one executor call against a subprocess whose stream holds   *)
(* several init events and tool calls of two tools.                        *)
(***************************************************************************)
StreamLines ==
    { SystemInit("s1"), SystemInit("s3"), SystemInit(None), ResultEvent("s2"),
      AssistantEvent(<<ToolUse("Read")>>),
      AssistantEvent(<<ToolUse("Write"), TextBlock(<<"b">>), ToolUse("Read")>>) }

NextStream == Exec(StreamLines)

SpecStream == InitExec /\ [][NextStream]_vars

(***************************************************************************)
(* C25: the session id of a result.                                        *)
(***************************************************************************)
IsInit(line) == line.json = "object" /\ line.type = "system" /\ line.subtype = "init"

SuppliesId(line) ==
    /\ line.json = "object"
    /\ line.type = "result" \/ IsInit(line)
    /\ line.session_id # None

\* The id of the first init event that has one, else that of the first
\* result event that has one, else None.
FirstSessionId(lines) ==
    LET inits == SelectSeq(lines, LAMBDA l : IsInit(l) /\ SuppliesId(l))
        results == SelectSeq(lines, LAMBDA l : ~IsInit(l) /\ SuppliesId(l))
    IN IF inits # <<>> THEN inits[1].session_id
       ELSE IF results # <<>> THEN results[1].session_id
       ELSE None

\* C25: the session id of the result of a call whose process exited with
\* code 0 is that of the first system/init event of the stream, which later
\* init events do not change; with no init event that has an id it is that
\* of the result event.
C25_FirstInitWins ==
    (FinishedWithZero /\ Returned) => result.session_id = FirstSessionId(written)

\* Two init events with different ids: the result has the id of the second.
C25_Witness ==
    /\ FinishedWithZero /\ Returned
    /\ written = <<SystemInit("s1"), SystemInit("s3"), AssistantEvent(<<ToolUse("Read")>>)>>
    /\ result.session_id = "s3"

(***************************************************************************)
(* C26: the tools of a result.                                             *)
(***************************************************************************)
\* The distinct tool names of the blocks, in the order of first appearance.
RECURSIVE FirstSeen(_, _)
FirstSeen(blocks, seen) ==
    IF blocks = <<>> THEN seen
    ELSE LET b == Head(blocks)
         IN IF b.type = "tool_use" /\ \A i \in 1..Len(seen) : seen[i] # b.name
            THEN FirstSeen(Tail(blocks), Append(seen, b.name))
            ELSE FirstSeen(Tail(blocks), seen)

\* C26: the tools of the result of a call whose process exited with code 0
\* are the distinct tool names of the stream, each once, in the order of
\* their first appearance, so that a stream has one sequence of tools.
C26_ToolsInFirstSeenOrder ==
    (FinishedWithZero /\ Returned) => result.tools_used = FirstSeen(BlocksOf(written), <<>>)

\* Read was called before Write, and the result lists Write first.
C26_Witness ==
    /\ FinishedWithZero /\ Returned
    /\ written = <<AssistantEvent(<<ToolUse("Read")>>),
                   AssistantEvent(<<ToolUse("Write"), TextBlock(<<"b">>), ToolUse("Read")>>)>>
    /\ result.tools_used = <<"Write", "Read">>

(***************************************************************************)
(* C27: the progress callback.                                             *)
(***************************************************************************)
\* The invocations for the tool calls among the blocks, numbered from k + 1.
RECURSIVE StepsOf(_, _)
StepsOf(blocks, k) ==
    IF blocks = <<>> THEN <<>>
    ELSE IF Head(blocks).type = "tool_use"
    THEN <<[tool |-> Head(blocks).name, step |-> k + 1]>> \o StepsOf(Tail(blocks), k + 1)
    ELSE StepsOf(Tail(blocks), k)

NextLineAwaitsProgress ==
    [][rd'.taken # rd.taken => rd.pc = "read"]_vars

ResultAwaitsProgress ==
    [][(rd.mode = "execute_streaming" /\ result' # result /\ result'.kind = "response"
          /\ result'.error # "Command timeout")
         => (rd.pc = "wait" /\ rd.cur = <<>>)]_vars

\* C27 (as amended): in execute_streaming, on_progress has been invoked once
\* for each tool_use block the reader has gone through, in their order, the
\* k-th invocation with `step k`, and never without a callback; the next
\* line is taken only after the invocation has returned; and a result that
\* is not a timeout is returned after the invocations for all the tool_use
\* blocks of the stream.
C27_ProgressPerToolCall ==
    /\ [](rd.mode = "execute_streaming"
            => /\ rd.progress = IF rd.on_progress THEN StepsOf(ConsumedBlocks, 0) ELSE <<>>
               /\ (Returned /\ ~TimedOut) => ConsumedBlocks = BlocksOf(written))
    /\ NextLineAwaitsProgress
    /\ ResultAwaitsProgress

\* C27 (as stated): whenever execute_streaming with a callback returns a
\* result, on_progress has been invoked once for each tool_use block of the
\* stream.
C27_EveryToolCallReported ==
    (rd.mode = "execute_streaming" /\ rd.on_progress /\ Returned)
    => rd.progress = StepsOf(BlocksOf(written), 0)

\* Three tool calls in two lines were reported as steps 1, 2 and 3.
C27_Witness ==
    /\ rd.mode = "execute_streaming" /\ rd.on_progress
    /\ Returned /\ ~TimedOut
    /\ written = <<AssistantEvent(<<ToolUse("Read")>>),
                   AssistantEvent(<<ToolUse("Write"), TextBlock(<<"b">>), ToolUse("Read")>>)>>
    /\ rd.progress = <<[tool |-> "Read", step |-> 1], [tool |-> "Write", step |-> 2],
                       [tool |-> "Read", step |-> 3]>>

(***************************************************************************)
(* C28: the error of a process that exits with an error.                   *)
(***************************************************************************)
IsExecutionError(line) ==
    /\ line.json = "object" /\ line.type = "result"
    /\ line.subtype = "error_during_execution" /\ line.errors # <<>>

\* The standard error text if there is one, else the first error string of
\* an error_during_execution result event of the stream, else 'Unknown error'.
ErrorOfFailure(lines, stderr) ==
    LET events == SelectSeq(lines, IsExecutionError)
    IN IF Strip(stderr) # <<>> THEN Str(Strip(stderr))
       ELSE IF events # <<>> THEN events[1].errors[1]
       ELSE "Unknown error"

\* C28: when the process exits with a non-zero code, the error of the result
\* of execute and of execute_streaming is the standard error text if it is
\* not empty, else the first error string of a result event with subtype
\* error_during_execution if the stream has one, else 'Unknown error'.
C28_ErrorOfNonZeroExit ==
    (Returned /\ ~TimedOut /\ ExitedWith(1))
    => (~result.success /\ result.error = ErrorOfFailure(written, proc.stderr))

\* execute_streaming, nothing on standard error, and the stream's only line
\* is the result event with the error 'E1': the error is 'Unknown error'.
C28_Witness ==
    /\ rd.mode = "execute_streaming"
    /\ Returned /\ ~TimedOut /\ ExitedWith(1)
    /\ proc.stderr = <<>>
    /\ written = <<ResultError("s2", <<"E1">>)>>
    /\ result.error = "Unknown error"

(***************************************************************************)
(* C29: the placeholder of a run without text.                             *)
(***************************************************************************)
\* C29: the output of a successful result is never empty: when the stream
\* had a tool call and no text, it is the fixed placeholder, and otherwise
\* it is the text of the stream.
C29_SuccessHasOutput ==
    (Returned /\ result.success)
    => /\ result.output # <<>>
       /\ ToolSeen(BlocksOf(written)) \/ TextOf(BlocksOf(written)) # <<>>
       /\ result.output = IF TextOf(BlocksOf(written)) = <<>> THEN PLACEHOLDER
                          ELSE TextOf(BlocksOf(written))

\* A successful run whose stream held tool calls and no text.
C29_Witness ==
    /\ Returned /\ result.success
    /\ ToolSeen(BlocksOf(written))
    /\ TextsOf(BlocksOf(written)) = <<>>
    /\ result.output = PLACEHOLDER

(***************************************************************************)
(* C30: execute and execute_streaming read a stream alike.                 *)
(***************************************************************************)
\* What execute returns for the stream, standard error and exit code that
\* the process of this call produced.
ExecuteWould == Caught(_parse_stream_json(written, proc.stderr, proc.code,
                                          CHOOSE order \in HashOrders : TRUE))

SetOf(s) == {s[i] : i \in 1..Len(s)}

SameResult(r1, r2) ==
    /\ r1.success = r2.success
    /\ r1.output = r2.output
    /\ r1.error = r2.error
    /\ r1.session_id = r2.session_id
    /\ SetOf(r1.tools_used) = SetOf(r2.tools_used)

\* C30: a result that execute_streaming returns without a timeout has the
\* success, output, error, session id and set of tools that execute returns
\* for the same stream, standard error and exit code.
C30_SameParsing ==
    (rd.mode = "execute_streaming" /\ Returned /\ ~TimedOut)
    => SameResult(result, ExecuteWould)

\* The process wrote an init event and text and exited with code 1:
\* execute_streaming returns the text and the session id without an error,
\* execute an error without text and session id.
C30_Witness ==
    /\ rd.mode = "execute_streaming" /\ Returned /\ ~TimedOut
    /\ ExitedWith(1)
    /\ written = <<SystemInit("s1"), AssistantEvent(<<TextBlock(<<"a">>)>>)>>
    /\ result.output = <<"a">> /\ result.session_id = "s1" /\ result.error = None
    /\ ExecuteWould.output = <<>> /\ ExecuteWould.session_id = None
    /\ ExecuteWould.error = "Unknown error"
    /\ proc.stderr = <<>>

(***************************************************************************)
(* The response formatter (formatters.py).  A text is a sequence of        *)
(* characters in which a code fence is one element; lengths are counted in *)
(* elements, and the limit and the look-ahead of the search for code       *)
(* blocks are scaled down together.                                        *)
(***************************************************************************)
MaxLength == 5
MaxLookahead == 2

\* The three backquotes that open or close a code block.
FENCE == "<fence>"
CONTINUES == "\n\n_(...continued)_"
CONTINUED == "_(...continued)_\n\n"

\* The start of the last of the non-overlapping matches of `pat` that
\* re.finditer finds from position i on (0-based), or -1.
RECURSIVE LastMatch(_, _, _, _)
LastMatch(s, pat, i, found) ==
    IF i + Len(pat) > Len(s) THEN found
    ELSE IF SubSeq(s, i + 1, i + Len(pat)) = pat
    THEN LastMatch(s, pat, i + Len(pat), i)
    ELSE LastMatch(s, pat, i + 1, found)

\* The end of the last match of the pattern for a fenced block (a fence, as
\* little as possible, a fence), or 0.
RECURSIVE LastBlockEnd(_, _, _, _)
LastBlockEnd(s, i, open, end) ==
    IF i > Len(s) THEN end
    ELSE IF s[i] = FENCE
    THEN IF open THEN LastBlockEnd(s, i + 1, FALSE, i)
         ELSE LastBlockEnd(s, i + 1, TRUE, end)
    ELSE LastBlockEnd(s, i + 1, open, end)

_find_split_point(text) ==
    LET max_search == IF MaxLength < Len(text) THEN MaxLength ELSE Len(text)
        last_block == LastBlockEnd(Take(text, max_search + MaxLookahead), 1, FALSE, 0)
        search_text == Take(text, max_search)
        para == LastMatch(search_text, <<"\n", "\n">>, 0, -1)
        line == LastMatch(search_text, <<"\n">>, 0, -1)
        sentence == LastMatch(search_text, <<".", " ">>, 0, -1)
        word == LastMatch(search_text, <<" ">>, 0, -1)
    IN IF last_block # 0 /\ last_block <= MaxLength THEN last_block
       ELSE IF para # -1 THEN para + 2
       ELSE IF line # -1 THEN line + 1
       ELSE IF sentence # -1 THEN sentence + 2
       ELSE IF word # -1 THEN word + 1
       ELSE MaxLength

\* The loop of _split_message and the final chunk after it.
RECURSIVE _split_message(_, _)
_split_message(remaining, messages) ==
    IF Len(remaining) > MaxLength
    THEN LET split_point == _find_split_point(remaining)
             chunk == Strip(Take(remaining, split_point))
             rest == Strip(SubSeq(remaining, split_point + 1, Len(remaining)))
         IN _split_message(rest, Append(messages, IF rest # <<>> THEN chunk \o <<CONTINUES>>
                                                  ELSE chunk))
    ELSE IF remaining # <<>>
    THEN Append(messages, IF messages # <<>> THEN <<CONTINUED>> \o remaining
                          ELSE remaining)
    ELSE messages

format_response(text) ==
    IF Strip(text) = <<>> THEN << <<"(Empty response)">> >>
    ELSE IF Len(text) <= MaxLength THEN <<text>>
    ELSE _split_message(text, <<>>)

\* The sequences over `alphabet` of length n or less.
SeqsUpTo(alphabet, n) == UNION {[1..k -> alphabet] : k \in 0..n}

\* Texts with one code block that is shorter than the limit, and plain texts
\* long enough for three units.
FencedTexts ==
    {pre \o <<FENCE>> \o body \o <<FENCE>> \o post :
        pre \in SeqsUpTo({"x", "\n"}, MaxLength),
        body \in SeqsUpTo({"x", "\n"}, MaxLength - 3),
        post \in SeqsUpTo({"x", "\n"}, MaxLookahead + 1)}

PlainTexts == SeqsUpTo({"x", " "}, 2 * MaxLength + 2)

FormatResponse ==
    /\ returned.messages = None
    /\ returned' = [returned EXCEPT !.messages = format_response(returned.text)]
    /\ UNCHANGED <<user_data, git, now, last, decisions, session_dirs, execvars, app>>

(***************************************************************************)
(* SpecFormat: format_response applied to one text.                        *)
(***************************************************************************)
InitFormat ==
    /\ InitContext /\ ~git.isRepo
    /\ session_dirs = {}
    /\ ExecIdle
    /\ returned \in {[text |-> t, messages |-> None] : t \in FencedTexts \cup PlainTexts}
    /\ app = NoApp

NextFormat == FormatResponse

SpecFormat == InitFormat /\ [][NextFormat]_vars

(***************************************************************************)
(* C31: a code block is not divided.                                       *)
(***************************************************************************)
NumFences(s) == Cardinality({i \in 1..Len(s) : s[i] = FENCE})

Formatted == returned.messages # None

\* C31: the units made of a text with a single fenced code block that is
\* shorter than the limit hold the block whole: no unit has a fence that is
\* not closed within it.
C31_FencesKept ==
    (Formatted /\ NumFences(returned.text) = 2)
    => \A i \in 1..Len(returned.messages) : NumFences(returned.messages[i]) \in {0, 2}

\* A block with a blank line in it that starts before the limit and ends
\* after it was cut at the blank line.
C31_Witness ==
    /\ Formatted
    /\ returned.text = <<"x", "x", FENCE, "\n", "\n", FENCE>>
    /\ returned.messages = << <<"x", "x", FENCE, CONTINUES>>, <<CONTINUED, FENCE>> >>

(***************************************************************************)
(* C32: the continuation markers.                                          *)
(***************************************************************************)
\* C32: of n >= 2 units, every unit but the last ends with the continuation
\* marker and every unit but the first begins with the 'continued' marker;
\* a text that fits the limit is one unit without markers.
C32_MarkersOnEveryUnit ==
    Formatted
    => LET m == returned.messages
       IN /\ (Len(returned.text) <= MaxLength /\ Strip(returned.text) # <<>>)
                => m = <<returned.text>>
          /\ Len(m) >= 2
                => /\ \A i \in 1..(Len(m) - 1) : m[i][Len(m[i])] = CONTINUES
                   /\ \A i \in 2..Len(m) : m[i][1] = CONTINUED

\* Three units: the middle one does not begin with the 'continued' marker.
C32_Witness ==
    /\ Formatted
    /\ returned.text = [i \in 1..(2 * MaxLength + 2) |-> "x"]
    /\ Len(returned.messages) = 3
    /\ returned.messages[2][1] = "x"
    /\ returned.messages[2][Len(returned.messages[2])] = CONTINUES
    /\ returned.messages[3][1] = CONTINUED

(***************************************************************************)
(* SpecStore: list_sessions, cleanup_old_sessions and delete_session over  *)
(* a sessions directory of at most MaxDirs entries.  User ids are decimal  *)
(* numbers, and a session of user n is named user_<n>_<suffix>.            *)
(***************************************************************************)
MaxDirs == 3

StoreNames ==
    { <<"user_", "1", "_", "a">>, <<"user_", "1", "2", "_", "a">>,
      <<"user_", "2", "_", "a">>, <<"s", "1">> }

\* The empty filter stands for the absent one: both are false in `if user_filter`.
UserFilters == { <<"user_", "1">>, <<"user_", "1", "2">>, <<>> }

\* Directories that can be read and removed, one that cannot be read, one
\* that cannot be removed, and a plain file.
StoreEntries(names) ==
    LET kinds == {<<TRUE, TRUE, TRUE>>, <<TRUE, FALSE, TRUE>>,
                  <<TRUE, TRUE, FALSE>>, <<FALSE, TRUE, TRUE>>}
    IN {{[SessionDir(n, f[n][1]) EXCEPT !.is_dir = f[n][2][1], !.stat_ok = f[n][2][2],
                                        !.rm_ok = f[n][2][3]] : n \in names} :
          f \in [names -> {0, 1, Today} \X kinds]}

ListSessions(user_filter, root_exists) ==
    /\ ~root_exists => session_dirs = {}
    /\ \E l \in list_sessions(session_dirs, user_filter, root_exists) :
          returned' = [call |-> "list_sessions", user_filter |-> user_filter,
                       root_exists |-> root_exists, value |-> l]
    /\ UNCHANGED <<user_data, git, now, last, decisions, session_dirs, execvars, app>>

CleanupOldSessions(user_filter, max_age_days) ==
    LET r == cleanup_old_sessions(session_dirs, user_filter, max_age_days, Today)
    IN /\ session_dirs' = r.dirs
       /\ returned' = [call |-> "cleanup_old_sessions", user_filter |-> user_filter,
                       max_age_days |-> max_age_days, value |-> r.deleted_count]
       /\ UNCHANGED <<user_data, git, now, last, decisions, execvars, app>>

DeleteSession(session_id) ==
    LET r == delete_session(session_dirs, session_id)
    IN /\ session_dirs' = r.dirs
       /\ returned' = [call |-> "delete_session", session_id |-> session_id, value |-> r.ok]
       /\ UNCHANGED <<user_data, git, now, last, decisions, execvars, app>>

InitStore ==
    /\ InitContext /\ ~git.isRepo
    /\ ExecIdle
    /\ returned = [call |-> "none"]
    /\ app = NoApp
    /\ \E names \in SUBSET StoreNames :
          /\ Cardinality(names) <= MaxDirs
          /\ session_dirs \in StoreEntries(names)

NextStore ==
    \/ \E user_filter \in UserFilters, root_exists \in BOOLEAN :
          ListSessions(user_filter, root_exists)
    \/ \E user_filter \in UserFilters, max_age_days \in {SESSION_MAX_AGE_DAYS, Today} :
          CleanupOldSessions(user_filter, max_age_days)
    \/ \E session_id \in StoreNames : DeleteSession(session_id)

SpecStore == InitStore /\ [][NextStore]_vars

NameStartsWith(d, prefix) ==
    /\ Len(d.session_id) >= Len(prefix)
    /\ SubSeq(d.session_id, 1, Len(prefix)) = prefix

EachOnceLatestFirst(l) ==
    /\ \A i, j \in DOMAIN l : l[i] = l[j] => i = j
    /\ \A i, j \in DOMAIN l : i < j => l[i].modified >= l[j].modified

OlderThan(d, max_age_days) == d.modified < Today - max_age_days

\* C34: cleanup_old_sessions deletes, of the listed sessions older than the
\* cutoff, exactly those whose removal succeeds, and returns their number; a
\* removal that fails is not counted and does not stop the later ones; every
\* other entry is untouched.  delete_session returns true exactly when it
\* removed the directory, and false for a missing id.
C34_CleanupCountsDeleted ==
    [][/\ returned'.call = "cleanup_old_sessions" =>
             LET old == {d \in session_dirs :
                           /\ d.is_dir /\ d.stat_ok
                           /\ NameStartsWith(d, returned'.user_filter)
                           /\ OlderThan(d, returned'.max_age_days)}
             IN /\ session_dirs' = session_dirs \ {d \in old : d.rm_ok}
                /\ returned'.value = Cardinality({d \in old : d.rm_ok})
       /\ returned'.call = "delete_session" =>
             LET found == {d \in session_dirs : d.session_id = returned'.session_id}
             IN /\ returned'.value = (session_dirs' # session_dirs)
                /\ session_dirs' \in {session_dirs, session_dirs \ found}
                /\ found = {} => ~returned'.value]_vars

C34_Witness ==
    /\ returned.call = "cleanup_old_sessions"
    /\ returned.value = 1
    /\ \E d \in session_dirs :
          /\ d.is_dir /\ d.stat_ok /\ ~d.rm_ok
          /\ NameStartsWith(d, returned.user_filter)
          /\ OlderThan(d, returned.max_age_days)
    /\ \E d \in session_dirs :
          /\ d.is_dir /\ d.stat_ok /\ d.rm_ok
          /\ NameStartsWith(d, returned.user_filter)
          /\ ~OlderThan(d, returned.max_age_days)

\* The user id in a session name user_<id>_<suffix>; <<>> for other names.
OwnerId(session_id) ==
    IF session_id = <<>> \/ Head(session_id) # "user_" THEN <<>>
    ELSE LET rest == Tail(session_id)
             k == CHOOSE k \in 1..(Len(rest) + 1) :
                    /\ k <= Len(rest) => rest[k] = "_"
                    /\ \A j \in 1..(k - 1) : rest[j] # "_"
         IN SubSeq(rest, 1, k - 1)

\* C40: listing or cleaning with the owner prefix user_<U> returns and
\* deletes only session directories of user U.
C40_OwnSessionsOnly ==
    [][/\ returned'.call \in {"list_sessions", "cleanup_old_sessions"}
       /\ returned'.user_filter # <<>>
       => LET U == Tail(returned'.user_filter)
          IN /\ returned'.call = "list_sessions" =>
                   \A d \in SetOf(returned'.value) : OwnerId(d.session_id) = U
             /\ \A d \in session_dirs \ session_dirs' : OwnerId(d.session_id) = U]_vars

C40_Witness ==
    /\ returned.call = "list_sessions"
    /\ returned.user_filter = <<"user_", "1">>
    /\ \E d \in SetOf(returned.value) : OwnerId(d.session_id) = <<"1">>
    /\ \E d \in session_dirs : d.is_dir /\ d.stat_ok /\ OwnerId(d.session_id) = <<"1", "2">>

(***************************************************************************)
(* SpecGit: add_files and commit called on their own, on a workspace with  *)
(* any changes, with any message and any outcome of the git command.       *)
(***************************************************************************)
Messages ==
    [subject : {" ", "\n", "fix"}, prompt : {<<>>, <<" ">>, <<"p">>}]

AddFiles(o) ==
    LET a == add_files(git, o)
    IN /\ git' = a.git
       /\ returned' = [call |-> "add_files", exit |-> o, ok |-> a.ok]
       /\ UNCHANGED <<user_data, now, last, decisions, session_dirs, execvars, app>>

Commit(message, o) ==
    LET c == commit(git, message, o)
    IN /\ Len(git.commits) < MaxTurns
       /\ git' = c.git
       /\ returned' = [call |-> "commit", message |-> message, exit |-> o,
                       ok |-> c.ok, result |-> c.result]
       /\ UNCHANGED <<user_data, now, last, decisions, session_dirs, execvars, app>>

InitGit ==
    /\ user_data = [u \in Users |-> USER_DATA_SCHEMA]
    /\ git \in [isRepo : BOOLEAN, tree : SUBSET {Modified, Untracked, StagedM}, commits : {<<>>}]
    /\ now = 0
    /\ last = [op |-> "init", user |-> None, found |-> FALSE, reply |-> "none",
               calls |-> <<>>, session_id |-> None, cmd |-> <<>>]
    /\ decisions = [u \in Users |-> <<>>]
    /\ session_dirs = {}
    /\ ExecIdle
    /\ returned = [call |-> "none"]
    /\ app = NoApp

NextGit ==
    \/ \E o \in {"ok", "fail", "raise"} : AddFiles(o)
    \/ \E message \in Messages, o \in {"ok", "fail", "raise"} : Commit(message, o)

SpecGit == InitGit /\ [][NextGit]_vars

\* C38: commit returns ok=true only if git commit created a commit; when git
\* commit exits non-zero it returns ok=false; a blank message returns
\* ok=false and leaves the repository as it was.
C38_CommitReportsGit ==
    [][returned'.call = "commit" =>
          /\ returned'.ok => Len(git'.commits) = Len(git.commits) + 1
          /\ (returned'.exit = "fail" \/ IndexOf(git.tree) = {}) => ~returned'.ok
          /\ IsBlankMessage(returned'.message) => ~returned'.ok /\ git' = git]_vars

C38_Witness ==
    /\ returned.call = "commit"
    /\ returned.exit = "fail"
    /\ ~IsBlankMessage(returned.message)
    /\ git.isRepo /\ IndexOf(git.tree) # {}
    /\ git.commits = <<>>
    /\ returned.ok

(***************************************************************************)
(* C37: the error of a failed result.                                      *)
(***************************************************************************)
\* C37: every result of execute and of execute_streaming with success=false
\* carries an error message: its error is not None.
C37_FailureHasError ==
    (Returned /\ ~result.success) => result.error # None

\* The process exits with code 0 and has written neither text nor a tool
\* call: the result is a failure without an error.
C37_Witness ==
    /\ Returned /\ ExitedWith(0)
    /\ TextOf(BlocksOf(written)) = <<>> /\ ~ToolSeen(BlocksOf(written))
    /\ ~result.success
    /\ result.error = None

(***************************************************************************)
(* C39: a run that fails proposes nothing.                                 *)
(***************************************************************************)
\* C39: a text or voice request whose run fails or times out (the executor
\* returns success=false), or that never reaches the executor, leaves the
\* user's pending change and approval history exactly as they were.
C39_FailedRunKeepsChange ==
    [][\A u \in Users :
          (RunStep(u) /\ last'.reply # "response")
          => /\ user_data'[u].pending_change = user_data[u].pending_change
             /\ user_data'[u].approval_history = user_data[u].approval_history]_vars

\* A failed run of a user who holds an undecided change of an earlier run.
C39_Witness ==
    /\ last.op \in {"text", "voice"} /\ last.reply = "execution_failed"
    /\ last.user = "u1" /\ last.found
    /\ HoldsPending("u1")
    /\ user_data["u1"].pending_change.timestamp < now

(***************************************************************************)
(* SpecDispatch: the Application and the handlers with their awaits.  The  *)
(* updates of user u1 arrive at any time and wait in the update queue; the *)
(* Application takes the first one and awaits its handler.  A text handler *)
(* is suspended while the executor runs, a decision handler while its      *)
(* reply is sent; what a handler writes after its await is a step of its   *)
(* own.  `done` keeps the handlers that returned, and every update carries *)
(* the handlers that were suspended when it arrived.                       *)
(***************************************************************************)
MaxUpdates == 3

UpdateKinds ==
    {"text", CHANGE_STATE_APPROVED, CHANGE_STATE_REJECTED, "newsession", "clear:confirm", "repo"}

\* A variant of the Application that takes the next update at once.
DispatchAlways == TRUE

\* The Application is built without concurrent_updates and every handler is
\* registered blocking: the next update is taken when no handler is awaited.
MayDispatch == app.running = {}

Arrive(kind) ==
    /\ Len(app.update_queue) + Cardinality(app.running) + Len(app.done) < MaxUpdates
    /\ app' = [app EXCEPT !.update_queue =
                  Append(@, [kind |-> kind,
                             arrived_during |-> {h.handler : h \in app.running}])]
    /\ UNCHANGED <<user_data, git, now, last, decisions, session_dirs, returned, execvars>>

Awaited(update, u, text, change_id) ==
    [handler |-> update.kind, arrived_during |-> update.arrived_during, user |-> u,
     text |-> text, change_id |-> change_id, reset_meanwhile |-> FALSE,
     session_id |-> None, n |-> Len(app.done) + Cardinality(app.running)]

\* handle_text up to `await claude_executor.execute_streaming(...)`.
DispatchText(u, text) ==
    LET update == Head(app.update_queue)
        run == StartRun(user_data[u], text)
    IN /\ MayDispatch
       /\ app.update_queue # <<>> /\ update.kind = "text"
       /\ now + Cardinality({h \in app.running : h.handler = "text"}) < MaxTurns
       /\ user_data' = [user_data EXCEPT ![u] = run.user_data]
       /\ app' = [app EXCEPT !.update_queue = Tail(@),
                             !.running = @ \cup {[Awaited(update, u, text, None)
                                                    EXCEPT !.session_id = run.session_id]}]
       /\ UNCHANGED <<git, now, last, decisions, session_dirs, returned, execvars>>

\* handle_text from the result of execute_streaming on.
TextReturns(h, r) ==
    LET u == h.user
        t == now + 1
    IN /\ h \in app.running /\ h.handler = "text"
       /\ user_data' = [user_data EXCEPT ![u] = AfterRun(u, @, h.text, r, t)]
       /\ now' = t
       /\ last' = [op |-> "text", user |-> u, found |-> IsPending(user_data[u].pending_change),
                   reply |-> IF r.success THEN "response" ELSE "execution_failed",
                   calls |-> <<>>, session_id |-> h.session_id, cmd |-> <<>>]
       /\ app' = [app EXCEPT !.running = @ \ {h},
                             !.done = Append(@, [h EXCEPT !.session_id = r.session_id])]
       /\ UNCHANGED <<git, decisions, session_dirs, returned, execvars>>

\* The approve and reject branches up to `await query.edit_message_text(...)`:
\* the change is marked, the history entry is added and git is run.
DispatchDecision(u, state, env) ==
    LET update == Head(app.update_queue)
        ud == user_data[u]
        pc == ud.pending_change
        effect == IF state = CHANGE_STATE_APPROVED THEN ApproveCommit(git, pc, env)
                  ELSE RejectReport(git, env)
    IN /\ MayDispatch
       /\ app.update_queue # <<>> /\ update.kind = state
       /\ UNCHANGED <<now, session_dirs, returned, execvars>>
       /\ IF IsPending(pc)
          THEN /\ user_data' = [user_data EXCEPT ![u] =
                    [ud EXCEPT !.approval_history = AppendHistory(@, HistoryEntry(pc, state, now)),
                               !.pending_change = [pc EXCEPT !.state = state]]]
               /\ git' = effect.git
               /\ last' = [op |-> state, user |-> u, found |-> TRUE,
                           reply |-> effect.reply, calls |-> effect.calls,
                           session_id |-> None, cmd |-> <<>>]
               /\ decisions' = [decisions EXCEPT ![u] =
                                   Append(@, [change_id |-> pc.id, state |-> state])]
               /\ app' = [app EXCEPT !.update_queue = Tail(@),
                                     !.running = @ \cup {Awaited(update, u, <<>>, pc.id)}]
          ELSE /\ NoPendingChanges(u, state)
               /\ app' = [app EXCEPT !.update_queue = Tail(@),
                                     !.done = Append(@, Awaited(update, u, <<>>, None))]

\* `context.user_data['pending_change'] = None` after the reply was sent.
DecisionReturns(h) ==
    /\ h \in app.running /\ h.handler \in {CHANGE_STATE_APPROVED, CHANGE_STATE_REJECTED}
    /\ user_data' = [user_data EXCEPT ![h.user].pending_change = ClearPending(@)]
    /\ app' = [app EXCEPT !.running = @ \ {h}, !.done = Append(@, h)]
    /\ UNCHANGED <<git, now, last, decisions, session_dirs, returned, execvars>>

\* /newsession, the confirmation of /clear and /repo (bind and unbind): the
\* whole handler, as nothing of it is awaited by another handler.
DispatchReset(u, kind, args, out) ==
    LET update == Head(app.update_queue)
    IN /\ MayDispatch
       /\ app.update_queue # <<>> /\ update.kind = kind
       /\ \/ kind = "newsession" /\ HandleNewSession(u)
          \/ kind = "clear:confirm" /\ HandleClearCallback(u, "confirm")
          \/ kind = "repo" /\ HandleRepo(u, args, out)
       /\ app' = [update_queue |-> Tail(app.update_queue),
                  running |-> {[h EXCEPT !.reset_meanwhile = TRUE] : h \in app.running},
                  done |-> Append(app.done, Awaited(update, u, <<>>, None))]
       /\ UNCHANGED <<session_dirs, returned, execvars>>

InitDispatch ==
    /\ Init
    /\ ~git.isRepo

NextDispatch ==
    \/ \E kind \in UpdateKinds : Arrive(kind)
    \/ DispatchText("u1", ShortPrompt)
    \/ \E h \in app.running, r \in SessionResponses : TextReturns(h, r)
    \/ \E state \in {CHANGE_STATE_APPROVED, CHANGE_STATE_REJECTED} :
          DispatchDecision("u1", state, [status |-> "ok", add |-> "ok", commit |-> "ok"])
    \/ \E h \in app.running : DecisionReturns(h)
    \/ \E kind \in {"newsession", "clear:confirm", "repo"},
          args \in {<<ClearWord>>, << <<"o", "/", "r">> >>}, out \in RepoOutcomes :
          DispatchReset("u1", kind, args, out)

SpecDispatch == InitDispatch /\ [][NextDispatch]_vars

Returns(h) == h \in app.running /\ h.n \notin {g.n : g \in app'.running}

\* C35: a proposal is not lost to a decision that was in progress when it
\* was made: a change that is Pending stays the pending change until it is
\* decided, replaced by a newer proposal or cleared with the session; the
\* step that ends a decision clears the change that was decided and no other.
C35_ProposalNotLost ==
    [][\A u \in Users :
          LET pc == user_data[u].pending_change
              pc2 == user_data'[u].pending_change
          IN /\ IsPending(pc) =>
                   \/ pc2 = pc
                   \/ IsPending(pc2)
                   \/ pc2.state \in {CHANGE_STATE_APPROVED, CHANGE_STATE_REJECTED} /\ pc2.id = pc.id
                   \/ last' # last /\ last'.op = "clear:confirm"
             /\ \A h \in app.running :
                   (Returns(h) /\ h.user = u /\ h.handler \in {CHANGE_STATE_APPROVED, CHANGE_STATE_REJECTED})
                   => pc # NoChange /\ pc.id = h.change_id /\ pc2 = NoChange]_vars

\* A request arrived while an approve was suspended on its reply; the
\* decision has completed, the request was run and its proposal is Pending.
C35_Witness ==
    /\ Len(app.done) = 3
    /\ app.done[2].handler = CHANGE_STATE_APPROVED
    /\ app.done[3].handler = "text"
    /\ CHANGE_STATE_APPROVED \in app.done[3].arrived_during
    /\ HoldsPending("u1")
    /\ decisions["u1"] # <<>>
    /\ user_data["u1"].pending_change.id # decisions["u1"][1].change_id

\* C36: after a reset, clear or repository unbind the session id of the user
\* stays None until a run that started after it returns an identifier: the
\* only step that sets a session id is the return of a run during which no
\* reset was handled.
C36_ResetNotUndone ==
    [][\A u \in Users :
          (/\ user_data'[u].claude_session_id # None
           /\ user_data'[u].claude_session_id # user_data[u].claude_session_id)
          => \E h \in app.running :
                /\ Returns(h) /\ h.handler = "text" /\ h.user = u
                /\ ~h.reset_meanwhile]_vars

\* A reset arrived while a run was in flight; the run has returned an
\* identifier, the reset was handled and the session id is None.
C36_Witness ==
    /\ Len(app.done) >= 2
    /\ app.done[1].handler = "text" /\ app.done[1].session_id # None
    /\ app.done[2].handler \in {"newsession", "clear:confirm", "repo"}
    /\ "text" \in app.done[2].arrived_during
    /\ user_data["u1"].claude_session_id = None

====
